---- MODULE Spec2Model ----
(***************************************************************************)
(* Model of the account-rotation, rate-limiting and ingestion core of x-go: *)
(*   - pkg/twitter/agent_manager.go : NewAgentManager, getNextAgent        *)
(*   - pkg/twitter/ratelimiter.go   : rateLimiter (one per Agent)          *)
(*   - internal/tasks/background.go : the three background goroutines      *)
(*   - internal/handlers/handlers.go: the producer of the smart users      *)
(*                                    channel (HandleSaveSmartFollowers)   *)
(*   - internal/db/migrations.go    : the tweets and smart_tweets tables   *)
(*   - pkg/twitter/auth/auth.go     : the handlers of the tools that       *)
(*                                    require a login                      *)
(* Time is discrete.  A timestamp t kept by the code is represented by its *)
(* age now - t, saturated just above the largest threshold the code        *)
(* compares it with, so that the passage of time is a bounded Tick action. *)
(***************************************************************************)
EXTENDS Integers, Sequences, FiniteSets, TLC

(* ---------------------------------------------------------------- bounds *)
MaxAccounts   == 3   \* accounts.json holds 0..MaxAccounts accounts
MaxNext       == 7   \* getNextAgent calls issued in one run
MaxAcquires   == 3   \* waitForEndpoint calls issued in one run
WindowLength  == 3   \* endpointLimit.windowLength, in ticks   (code: 15 min)
DefaultMaxCalls == 1 \* endpointLimit.maxCalls                 (code: 100)
MinSpacing    == 2   \* global spacing, in ticks               (code: 1500 ms)
MaxBoots      == 2   \* process starts (runs of NewAgentManager) in one run
MaxAccessorCalls == 1 \* GetAgent / SetCookies / GetAgentCount calls in one run
QueueCap      == 2   \* capacity of the smart users channel    (code: 1000)
MaxSends      == 4   \* usernames handed to the channel by handlers in one run
MaxRows       == 1   \* rows returned by a worklist query
MaxWorklist   == 2   \* rows returned by a worklist query when no request is served
MaxExecs      == 3   \* INSERT ... ON CONFLICT statements executed in one run
MaxToolCalls  == 2   \* tool handler calls made on one agent in one run
MaxChecks     == 3   \* checkEndpointLimit calls made in one run
MaxGateCalls  == 2   \* handler calls that reach waitForEndpoint in one run
MaxLockCalls  == 4   \* waitForEndpoint calls of the lock-level model in one run
MaxPasses     == 4   \* worklist queries of the two sweep loops in one run

\* AgentManager.index is a uint32, kept as two 16-bit halves [hi, lo]
Half == 65536
Uint32(n) == [hi |-> n \div Half, lo |-> n % Half]
Uint32Less(a, b) == a.hi < b.hi \/ (a.hi = b.hi /\ a.lo < b.lo)

Min(a, b) == IF a < b THEN a ELSE b
Max(a, b) == IF a > b THEN a ELSE b

VARIABLES
  \* ---- auth.AccountManager / file system
  accounts,     \* result of LoadAccounts: sequence of usernames
  cookieFiles,  \* usernames that have a cookies/<username>.json file
  \* ---- NewAgentManager
  bpc,          \* position in NewAgentManager
  bi,           \* loop variable i (1-based)
  built,        \* local slice agents[0..i) built so far
  cur,          \* local variable agent of the loop body
  bootErr,      \* error returned by NewAgentManager
  \* ---- AgentManager
  mgr,          \* TRUE once NewAgentManager returned a manager
  agents,       \* AgentManager.agents
  index,        \* AgentManager.index
  \* ---- goroutines in getNextAgent
  npc, nlocal, nret,
  \* ---- history of the rotation
  nAdds,        \* number of atomic increments performed
  ncall,        \* ordinal of the increment of each caller's current call
  handed,       \* values returned by atomic.AddUint32, in increment order
  sel,          \* sel[k]: pool index selected by the k-th call (-1: not yet)
  loginFailed,  \* username whose Login returned an error ("" if none)
  \* ---- history of the bootstraps
  boots,        \* ordinal of the current process start
  loginCalls,   \* usernames Login was called for in the current bootstrap
  fresh,        \* fresh[b]: usernames whose Login returned nil in bootstrap b
  restored,     \* usernames whose restored session was logged in (current bootstrap)
  bootLog,      \* the restorations and Login calls of the current bootstrap, in order
  \* ---- callers of the manager's operations
  acc,          \* the latest GetAgent / SetCookies / GetAgentCount call and its result
  nAcc,         \* number of such calls made
  opres,        \* per caller: the request operation in progress and what it returns
  \* ---- rateLimiter (one per agent)
  lastCallAge,    \* now - rateLimiter.lastCallTime, saturated at MinSpacing
  endpointCalls,  \* rateLimiter.endpointCalls: per limiter, per endpoint
  rmu,            \* rateLimiter.mu: "" = free, else the caller holding it
  \* ---- goroutines in waitForEndpoint
  pc, lim, ep, timer, result, ctxDone,
  issued,       \* number of waitForEndpoint calls issued so far
  \* ---- history of the limiter
  firedAt,      \* the suspension point the caller was at when its context was cancelled
  spun,         \* the caller's call was refused with a zero wait and retried at once
  admitted,     \* successful checks since the endpoint's windowStart was set
  sinceDone,    \* time since the latest completion (saturated)
  \* ---- main: the smart users channel and the context of the background tasks
  newUsers,     \* buffered channel smartUsersChan: the usernames waiting in it
  closed,       \* close(smartUsersChan) has run
  cancelled,    \* the context given to StartSmartTweetUpdates is done
  \* ---- HandleSaveSmartFollowers requests
  hpc, hitems,  \* per request: position, result.Items still to send
  nSent,        \* usernames handed to requests so far
  \* ---- StartSmartTweetUpdates goroutine
  ppc,          \* position of the goroutine
  pcur,         \* username being processed
  prows,        \* rows left in the periodic pass
  tickerC,      \* a tick is waiting in ticker.C
  \* ---- StartProfileUpdates / StartTweetUpdates goroutines
  lpc, lrows,   \* per loop: position, rows left in the pass
  \* ---- history of the passes
  lfailed,      \* per loop: the failures met so far in the current pass
  \* ---- history of the channel
  accepted,     \* usernames sent into the channel, in order
  warned,       \* usernames logged as "Could not send", in order
  processed,    \* usernames received from the channel and processed, in order
  closedWith,   \* number of usernames in the channel when it was closed (-1: open)
  \* ---- database
  tables,       \* per table (tweets, smart_tweets): the set of its rows
  \* ---- history of the database
  nExecs,       \* INSERT ... ON CONFLICT statements executed so far
  firstInsert,  \* per table and id: the tweet of the first Exec that returned nil
  lastUpsert,   \* per table and id: the tweet of the latest Exec that returned nil
  completed,    \* per table and id: number of Execs that returned nil
  \* ---- one auth.Agent and its tool handlers
  isLoggedIn,   \* what the agent's scraper answers to IsLoggedIn()
  toolCall,     \* the latest handler call: its request and its result
  nToolCalls,   \* handler calls made so far
  \* ---- checkEndpointLimit, statement by statement, on one limiter and endpoint
  qmu,          \* r.mu: "" = free, else the goroutine holding it
  qmap,         \* r.endpointCalls[endpoint]: 0 = no entry, else the limit it points to
  qobjs,        \* the endpointLimit objects allocated so far
  qpc,          \* per goroutine: position in checkEndpointLimit
  qptr,         \* per goroutine: local variable limit
  qread,        \* per goroutine: what it read of the limit (window elapsed, calls)
  qret,         \* per goroutine: what its latest call returned
  nChecks,      \* calls made so far
  \* ---- history of the quota
  qgranted,     \* per limit object: calls allowed by limit.calls++ since its window began
  \* ---- the users table and the passes of the two sweep loops over it
  users,        \* per username: "absent" (no row), "null" (user_id IS NULL), "set"
  wpc,          \* per loop: position
  wrows,        \* per loop: usernames the cursor rows has not yet returned
  nPasses,      \* worklist queries made so far
  \* ---- history of the worklist
  wfailed,      \* per loop: usernames whose latest fetch by the loop failed
  inserted,     \* usernames a row was inserted for
  \* ---- one fetched batch of tweets being stored, per routine
  spc,          \* per routine: position
  bbatch,       \* per routine: ids of the tweets of the batch, in order
  bres,         \* per routine: results of the db.Exec calls made for the batch
  stored,       \* per routine: ids with a row in the routine's table
  \* ---- handler calls that go through the agent's limiter
  gcall,        \* per goroutine: the handler call in progress or returned
  \* ---- main, from the start of the server to its return
  mpc,          \* position of main
  \* ---- waitForEndpoint lock by lock, on one limiter and several endpoints
  kmu,          \* r.mu: "" = free, else the goroutine holding it
  klimit,       \* per endpoint: its endpointLimit (exists, mu, calls, elapsed)
  kpc,          \* per goroutine: position in waitForEndpoint
  kep,          \* per goroutine: the endpoint of its call
  kallowed,     \* per goroutine: what its latest checkEndpointLimit returned
  nLockCalls,   \* calls made so far
  \* ---- history of the writes of waitForEndpoint calls
  wrote,        \* per goroutine: what its call in progress has written so far
  \* ---- the smart_users table and the lookups made in it
  smartUsers,   \* usernames with a row in smart_users
  dresp,        \* per request: the status of its latest response (0: none yet)
  lookups       \* results of SELECT id FROM smart_users WHERE username = $1

amVars == <<accounts, cookieFiles, bpc, bi, built, cur, bootErr, mgr, agents,
            index, npc, nlocal, nret, nAdds, ncall, handed, sel, loginFailed,
            boots, loginCalls, fresh, restored, bootLog, acc, nAcc, opres>>
rlVars == <<lastCallAge, endpointCalls, rmu, pc, lim, ep, timer, result,
            ctxDone, issued, firedAt, spun, admitted, sinceDone>>
bgVars == <<newUsers, closed, cancelled, hpc, hitems, nSent, ppc, pcur, prows,
            tickerC, lpc, lrows, lfailed, accepted, warned, processed,
            closedWith>>
dbVars == <<tables, nExecs, firstInsert, lastUpsert, completed>>
hdVars == <<isLoggedIn, toolCall, nToolCalls>>
qVars == <<qmu, qmap, qobjs, qpc, qptr, qread, qret, nChecks, qgranted>>
wVars == <<users, wpc, wrows, nPasses, wfailed, inserted>>
pVars == <<spc, bbatch, bres, stored>>
gVars == <<gcall>>
mVars == <<mpc>>
kVars == <<kmu, klimit, kpc, kep, kallowed, nLockCalls>>
fVars == <<wrote>>
sVars == <<smartUsers, dresp, lookups>>
newVars == <<wVars, pVars, gVars, mVars, kVars, fVars, sVars>>
vars == <<amVars, rlVars, bgVars, dbVars, hdVars, qVars, newVars>>
exceptAm == <<rlVars, bgVars, dbVars, hdVars, qVars, newVars>>
exceptRl == <<amVars, bgVars, dbVars, hdVars, qVars, newVars>>
exceptBg == <<amVars, rlVars, dbVars, hdVars, qVars, newVars>>
exceptDb == <<amVars, rlVars, bgVars, hdVars, qVars, newVars>>
exceptHd == <<amVars, rlVars, bgVars, dbVars, qVars, newVars>>
exceptQ == <<amVars, rlVars, bgVars, dbVars, hdVars, newVars>>
exceptW == <<amVars, rlVars, bgVars, dbVars, hdVars, qVars, pVars, gVars, mVars, kVars, fVars,
  sVars>>
exceptP == <<amVars, rlVars, bgVars, dbVars, hdVars, qVars, wVars, gVars, mVars, kVars, fVars,
  sVars>>
exceptRlG == <<amVars, bgVars, dbVars, hdVars, qVars, wVars, pVars, mVars, kVars, fVars,
  sVars>>
exceptK == <<amVars, rlVars, bgVars, dbVars, hdVars, qVars, wVars, pVars, gVars,
            mVars, fVars,
  sVars>>
exceptRlF == <<amVars, bgVars, dbVars, hdVars, qVars, wVars, pVars, gVars, mVars,
              kVars,
  sVars>>
exceptBgS == <<amVars, rlVars, dbVars, hdVars, qVars, wVars, pVars, gVars, mVars,
  kVars, fVars>>
exceptBgM == <<amVars, rlVars, dbVars, hdVars, qVars, wVars, pVars, gVars, kVars, fVars,
  sVars>>

AccountList(n) == [i \in 1..n |-> CASE i = 1 -> "acc1" [] i = 2 -> "acc2"
                                    [] i = 3 -> "acc3" [] OTHER -> "acc4"]
NextCallers == {"n1", "n2"}        \* goroutines calling getNextAgent
Callers == {"g1", "g2"}            \* goroutines calling waitForEndpoint
Limiters == {"acc1", "acc2"}       \* agents; NewAgent gives each its own rateLimiter
Endpoints == {"get_profile", "get_user_tweets"}
Requests == {"h1", "h2"}           \* HandleSaveSmartFollowers requests in progress
Loops == {"profile", "tweets"}     \* StartProfileUpdates, StartTweetUpdates
ItemLists == {<<"u1">>, <<"u2", "u3", "u1">>}   \* result.Items of a request

(* ------------------------------------------------------ NewAgentManager *)
ErrNoAccounts == [kind |-> "ErrNoAccounts", user |-> ""]
NoErr == [kind |-> "nil", user |-> ""]

\* agent_manager.go:43  if len(accounts) == 0
NoAccountsNeverChecked(accs) == FALSE
NoAccounts(accs) == Len(accs) = 0

\* auth.NewAgent(username): a fresh agent is not logged in
NewAgent(username) == [username |-> username, loggedIn |-> FALSE,
                       cookies |-> "none"]

\* agent_manager.go:19  ErrInvalidAgentIndex
ErrInvalidAgentIndex == "invalid agent index"
NoCall == [op |-> "none", index |-> 0, err |-> "", agent |-> "", count |-> 0]
NoOp == [out |-> "", label |-> ""]

AmInit ==
  /\ accounts = << >>
  /\ cookieFiles \in SUBSET {"acc1", "acc2"}
  /\ bpc = "load"
  /\ bi = 1
  /\ built = << >>
  /\ cur = NewAgent("")
  /\ bootErr = NoErr
  /\ mgr = FALSE
  /\ agents = << >>
  /\ index = Uint32(0)
  /\ npc = [c \in NextCallers |-> "idle"]
  /\ nlocal = [c \in NextCallers |-> Uint32(0)]
  /\ nret = [c \in NextCallers |-> ""]
  /\ nAdds = 0
  /\ ncall = [c \in NextCallers |-> 0]
  /\ handed = << >>
  /\ sel = [k \in 1..MaxNext |-> -1]
  /\ loginFailed = ""
  /\ boots = 1
  /\ loginCalls = {}
  /\ fresh = [b \in 1..MaxBoots |-> {}]
  /\ restored = {}
  /\ bootLog = << >>
  /\ acc = NoCall
  /\ nAcc = 0
  /\ opres = [c \in NextCallers |-> NoOp]

nextVars == <<index, npc, nlocal, nret, nAdds, ncall, handed, sel>>

\* agent_manager.go:34-46  LoadAccounts, error check, empty check
BootLoad ==
  /\ bpc = "load"
  /\ \/ \* LoadAccounts failed (unreadable or malformed accounts.json)
        /\ bpc' = "failed"
        /\ bootErr' = [kind |-> "load", user |-> ""]
        /\ UNCHANGED accounts
     \/ \E n \in 0..MaxAccounts :
          /\ accounts' = AccountList(n)
          /\ IF NoAccounts(accounts')
               THEN bpc' = "failed" /\ bootErr' = ErrNoAccounts
               ELSE bpc' = "loop" /\ bootErr' = bootErr
  /\ UNCHANGED <<cookieFiles, bi, built, cur, mgr, agents, loginFailed>>
  /\ UNCHANGED <<boots, loginCalls, fresh, restored, bootLog, acc, nAcc, opres>>
  /\ UNCHANGED nextVars

\* agent_manager.go:49-61  loop head, NewAgent, restore of the persisted session
BootRestore ==
  /\ bpc = "loop"
  /\ bi <= Len(accounts)
  /\ LET username == accounts[bi] IN
       \/ \* no cookie file, or LoadCookies failed: agent stays fresh
          /\ cur' = NewAgent(username)
       \/ \* cookies loaded and set; the scraper decides whether they are valid
          /\ username \in cookieFiles
          /\ \E valid \in BOOLEAN :
               cur' = [NewAgent(username) EXCEPT !.loggedIn = valid,
                                                 !.cookies = "file"]
  /\ restored' = IF cur'.loggedIn THEN restored \cup {cur'.username} ELSE restored
  /\ bootLog' = Append(bootLog, [step |-> "restore", user |-> cur'.username,
                                  authed |-> cur'.loggedIn])
  /\ bpc' = "restored"
  /\ UNCHANGED <<accounts, cookieFiles, bi, built, bootErr, mgr, agents, loginFailed>>
  /\ UNCHANGED <<boots, loginCalls, fresh, acc, nAcc, opres>>
  /\ UNCHANGED nextVars

\* agent_manager.go:66-69  Login returned an error: the whole bootstrap fails
LoginErrorSkipsAccount(username) ==
  /\ bpc' = "loop"
  /\ bi' = bi + 1
  /\ bootErr' = bootErr
  /\ loginFailed' = username
LoginError(username) ==
  /\ bpc' = "failed"
  /\ bi' = bi
  /\ bootErr' = [kind |-> "login", user |-> username]
  /\ loginFailed' = username

\* agent_manager.go:64  if !agent.IsLoggedIn()
NeedsLoginAlways(agent) == TRUE
NeedsLogin(agent) == ~agent.loggedIn

\* agent_manager.go:64-70  if !agent.IsLoggedIn() { Login ... }
BootLogin ==
  /\ bpc = "restored"
  /\ IF ~NeedsLogin(cur)
       THEN \* line 64 false: nothing to do, agents[i] = agent (line 81)
            /\ built' = Append(built, cur)
            /\ bi' = bi + 1
            /\ bpc' = "loop"
            /\ UNCHANGED <<cur, bootErr, loginFailed, loginCalls, fresh, bootLog>>
       ELSE /\ loginCalls' = loginCalls \cup {cur.username}
            /\ \/ /\ LoginError(cur.username)
                  /\ bootLog' = Append(bootLog, [step |-> "login",
                                   user |-> cur.username, authed |-> FALSE])
                  /\ UNCHANGED <<cur, built, fresh>>
               \/ \* Login returned nil; the scraper holds whatever session it got
                  /\ \E authed \in BOOLEAN :
                       /\ cur' = [cur EXCEPT !.loggedIn = authed,
                                             !.cookies = "login"]
                       /\ bootLog' = Append(bootLog, [step |-> "login",
                                        user |-> cur.username, authed |-> authed])
                  /\ fresh' = [fresh EXCEPT ![boots] = @ \cup {cur.username}]
                  /\ bpc' = "save"
                  /\ UNCHANGED <<bi, built, bootErr, loginFailed>>
  /\ UNCHANGED <<accounts, cookieFiles, mgr, agents, boots, restored>>
  /\ UNCHANGED <<acc, nAcc, opres>>
  /\ UNCHANGED nextVars

\* auth.go:49-59  SaveCookies writes cookies/<username>.json
SaveCookiesNowhere(files, username) == files
SaveCookies(files, username) == files \cup {username}

\* agent_manager.go:72-81  SaveCookies after a successful login, agents[i] = agent
BootSave ==
  /\ bpc = "save"
  /\ \/ \* SaveCookies failed
        /\ bpc' = "failed"
        /\ bootErr' = [kind |-> "save", user |-> cur.username]
        /\ UNCHANGED <<cookieFiles, built, bi>>
     \/ /\ cookieFiles' = SaveCookies(cookieFiles, cur.username)
        /\ built' = Append(built, cur)
        /\ bi' = bi + 1
        /\ bpc' = "loop"
        /\ UNCHANGED bootErr
  /\ UNCHANGED <<accounts, cur, mgr, agents, loginFailed>>
  /\ UNCHANGED <<boots, loginCalls, fresh, restored, bootLog, acc, nAcc, opres>>
  /\ UNCHANGED nextVars

\* agent_manager.go:84-89  return &AgentManager{agents, index: 0, ...}
BootFinish ==
  /\ bpc = "loop"
  /\ bi > Len(accounts)
  /\ bpc' = "done"
  /\ mgr' = TRUE
  /\ agents' = built
  /\ index' = Uint32(0)
  /\ UNCHANGED <<accounts, cookieFiles, bi, built, cur, bootErr, loginFailed>>
  /\ UNCHANGED <<boots, loginCalls, fresh, restored, bootLog, acc, nAcc, opres>>
  /\ UNCHANGED <<npc, nlocal, nret, nAdds, ncall, handed, sel>>

\* the process ends and is started again: main calls NewAgentManager anew
\* (part_001:76); only the files under XGO_PATH outlive the process
Restart ==
  /\ bpc \in {"done", "failed"}
  /\ boots < MaxBoots
  /\ boots' = boots + 1
  /\ accounts' = << >>
  /\ bpc' = "load"
  /\ bi' = 1
  /\ built' = << >>
  /\ cur' = NewAgent("")
  /\ bootErr' = NoErr
  /\ mgr' = FALSE
  /\ agents' = << >>
  /\ index' = Uint32(0)
  /\ npc' = [c \in NextCallers |-> "idle"]
  /\ nlocal' = [c \in NextCallers |-> Uint32(0)]
  /\ nret' = [c \in NextCallers |-> ""]
  /\ nAdds' = 0
  /\ ncall' = [c \in NextCallers |-> 0]
  /\ handed' = << >>
  /\ sel' = [k \in 1..MaxNext |-> -1]
  /\ loginFailed' = ""
  /\ loginCalls' = {}
  /\ restored' = {}
  /\ bootLog' = << >>
  /\ acc' = NoCall
  /\ nAcc' = 0
  /\ opres' = [c \in NextCallers |-> NoOp]
  /\ UNCHANGED <<cookieFiles, fresh>>

(* --------------------------------------------------------- getNextAgent *)
bootVars == <<accounts, cookieFiles, bpc, bi, built, cur, bootErr, mgr,
              agents, loginFailed, boots, loginCalls, fresh, restored, bootLog>>

\* agent_manager.go:94  atomic.AddUint32(&am.index, 1): the new value
AddUint32Stale(v) == v
AddUint32(v) == IF v.lo = Half - 1 THEN [hi |-> (v.hi + 1) % Half, lo |-> 0]
                ELSE [hi |-> v.hi, lo |-> v.lo + 1]

\* agent_manager.go:94  index := atomic.AddUint32(&am.index, 1)
NextAdd(c) ==
  /\ mgr
  /\ npc[c] = "idle"
  /\ nAdds < MaxNext
  /\ index' = AddUint32(index)
  /\ nlocal' = [nlocal EXCEPT ![c] = index']
  /\ nAdds' = nAdds + 1
  /\ ncall' = [ncall EXCEPT ![c] = nAdds']
  /\ handed' = Append(handed, index')
  /\ npc' = [npc EXCEPT ![c] = "added"]
  /\ UNCHANGED <<nret, sel>>
  /\ UNCHANGED <<bootVars, acc, nAcc, opres>>

\* agent_manager.go:95  index % uint32(len(am.agents)), as a 0-based pool index
SelectIndexPreIncrement(i, n) ==
  ((i.hi % n) * (Half % n) + (i.lo % n) + n - 1) % n
SelectIndex(i, n) == ((i.hi % n) * (Half % n) + (i.lo % n)) % n

\* agent_manager.go:95-97  agent := am.agents[index%len]; return agent, username
NextSelect(c) ==
  /\ npc[c] = "added"
  /\ IF Len(agents) = 0
       THEN \* integer divide by zero: the goroutine panics
            /\ npc' = [npc EXCEPT ![c] = "panic"]
            /\ UNCHANGED <<nret, sel>>
       ELSE LET k == SelectIndex(nlocal[c], Len(agents)) IN
            /\ nret' = [nret EXCEPT ![c] = agents[k + 1].username]
            /\ sel' = [sel EXCEPT ![ncall[c]] = k]
            /\ npc' = [npc EXCEPT ![c] = "ret"]
  /\ UNCHANGED <<index, nlocal, nAdds, ncall, handed>>
  /\ UNCHANGED <<bootVars, acc, nAcc, opres>>

\* the caller takes the result and may call again; the locals of the call
\* that has returned are gone
NextReturn(c) ==
  /\ npc[c] = "ret"
  /\ npc' = [npc EXCEPT ![c] = "idle"]
  /\ nlocal' = [nlocal EXCEPT ![c] = Uint32(0)]
  /\ nret' = [nret EXCEPT ![c] = ""]
  /\ ncall' = [ncall EXCEPT ![c] = 0]
  /\ UNCHANGED <<index, nAdds, handed, sel>>
  /\ UNCHANGED <<bootVars, acc, nAcc, opres>>

(* ------------------------------------- GetAgent, SetCookies, GetAgentCount *)
Indices == (0 - 1)..MaxAccounts   \* the index argument of a call
Operations == {"GetProfile", "LikeTweet"}

\* agent_manager.go:105, 484  if index < 0 || index >= len(am.agents)
InvalidIndexOffByOne(i, n) == i < 0 \/ i > n
InvalidIndex(i, n) == i < 0 \/ i >= n

\* agent_manager.go:480-491  GetAgent(index); am.agents[index] of a slice
\* panics when the index is out of range
GetAgent(i) ==
  /\ mgr
  /\ nAcc < MaxAccessorCalls
  /\ nAcc' = nAcc + 1
  /\ acc' = IF InvalidIndex(i, Len(agents))
               THEN [op |-> "GetAgent", index |-> i, err |-> ErrInvalidAgentIndex,
                     agent |-> "", count |-> 0]
             ELSE IF i + 1 \notin DOMAIN agents
               THEN [op |-> "panic", index |-> i, err |-> "", agent |-> "",
                     count |-> 0]
             ELSE [op |-> "GetAgent", index |-> i, err |-> "nil",
                   agent |-> agents[i + 1].username, count |-> 0]
  /\ UNCHANGED <<bootVars, nextVars, opres>>

\* auth.go:1002-1004  Agent.SetCookies: the scraper takes the cookies and
\* decides whether they make a session
WithCookies(agent, valid) == [agent EXCEPT !.cookies = "set", !.loggedIn = valid]

\* agent_manager.go:101-113  SetCookies(agentIndex, cookies)
SetCookies(i) ==
  /\ mgr
  /\ nAcc < MaxAccessorCalls
  /\ nAcc' = nAcc + 1
  /\ IF InvalidIndex(i, Len(agents))
       THEN /\ acc' = [op |-> "SetCookies", index |-> i,
                       err |-> ErrInvalidAgentIndex, agent |-> "", count |-> 0]
            /\ UNCHANGED agents
       ELSE IF i + 1 \notin DOMAIN agents
         THEN /\ acc' = [op |-> "panic", index |-> i, err |-> "", agent |-> "",
                         count |-> 0]
              /\ UNCHANGED agents
         ELSE /\ acc' = [op |-> "SetCookies", index |-> i, err |-> "nil",
                         agent |-> "", count |-> 0]
              /\ \E valid \in BOOLEAN :
                   agents' = [agents EXCEPT ![i + 1] = WithCookies(@, valid)]
  /\ UNCHANGED <<accounts, cookieFiles, bpc, bi, built, cur, bootErr, mgr,
                 loginFailed, boots, loginCalls, fresh, restored,
                 bootLog>>
  /\ UNCHANGED <<nextVars, opres>>

\* agent_manager.go:497  count := len(am.agents)
AgentCountLess(as) == Len(as) - 1
AgentCount(as) == Len(as)

\* agent_manager.go:494-500  GetAgentCount()
GetAgentCount ==
  /\ mgr
  /\ nAcc < MaxAccessorCalls
  /\ nAcc' = nAcc + 1
  /\ acc' = [op |-> "GetAgentCount", index |-> 0, err |-> "nil", agent |-> "",
             count |-> AgentCount(agents)]
  /\ UNCHANGED <<bootVars, nextVars, opres>>

(* ------------------------------------------- request-path operations *)
\* agent_manager.go:158, 177, 182, 188, 192  the label an operation returns is
\* its local agentUsername, whatever the cursor has become since
OpLabelOfCursor(own, latest) == latest
OpLabel(own, latest) == own

\* agent_manager.go:161-192, 319-344  the handler call and the branch taken:
\* err != nil, result.IsError, json.Unmarshal error (data operations), success
Outcomes(o) == IF o = "GetProfile" THEN {"err", "IsError", "unmarshal", "nil"}
               ELSE {"err", "IsError", "nil"}

\* agent_manager.go:161-192, 418-443  am.index after the handler call and the
\* return that follows it: no branch assigns it
IndexAfterHandlerGivesBack(i, out) ==
  IF out = "nil" THEN i
  ELSE IF i.lo = 0 THEN [hi |-> (i.hi + Half - 1) % Half, lo |-> Half - 1]
  ELSE [hi |-> i.hi, lo |-> i.lo - 1]
IndexAfterHandler(i, out) == i

\* agent_manager.go:157-193 (GetProfile), 315-345 (LikeTweet): the part of the
\* operation after its getNextAgent call has returned
OpHandle(c) ==
  /\ npc[c] = "ret"
  /\ \E o \in Operations : \E out \in Outcomes(o) :
        /\ opres' = [opres EXCEPT ![c] =
             [out |-> out,
              label |-> OpLabel(nret[c],
                                agents[SelectIndex(index, Len(agents)) + 1].username)]]
        /\ index' = IndexAfterHandler(index, out)
  /\ npc' = [npc EXCEPT ![c] = "returned"]
  /\ UNCHANGED <<nlocal, nret, nAdds, ncall, handed, sel>>
  /\ UNCHANGED <<bootVars, acc, nAcc>>

\* the caller of the operation takes (result, label, error) and may call again
OpReturn(c) ==
  /\ npc[c] = "returned"
  /\ npc' = [npc EXCEPT ![c] = "idle"]
  /\ opres' = [opres EXCEPT ![c] = NoOp]
  /\ nlocal' = [nlocal EXCEPT ![c] = Uint32(0)]
  /\ nret' = [nret EXCEPT ![c] = ""]
  /\ ncall' = [ncall EXCEPT ![c] = 0]
  /\ UNCHANGED <<index, nAdds, handed, sel>>
  /\ UNCHANGED <<bootVars, acc, nAcc>>

(* ----------------------------------------------------------- rateLimiter *)
NoLimit == [exists |-> FALSE, calls |-> 0, windowAge |-> 0,
            windowLength |-> 0, maxCalls |-> 0]

\* ratelimiter.go:57-61  the endpointLimit created on first use
NewEndpointLimit == [exists |-> TRUE, calls |-> 0, windowAge |-> 0,
                     windowLength |-> WindowLength, maxCalls |-> DefaultMaxCalls]

\* ratelimiter.go:33-38  newRateLimiter: lastCallTime = time.Now(), empty map
RlInit ==
  /\ lastCallAge = [l \in Limiters |-> 0]
  /\ endpointCalls = [l \in Limiters |-> [e \in Endpoints |-> NoLimit]]
  /\ rmu = [l \in Limiters |-> ""]
  /\ pc = [p \in Callers |-> "idle"]
  /\ lim = [p \in Callers |-> "acc1"]
  /\ ep = [p \in Callers |-> "get_profile"]
  /\ timer = [p \in Callers |-> 0]
  /\ result = [p \in Callers |-> ""]
  /\ ctxDone = [p \in Callers |-> FALSE]
  /\ issued = 0
  /\ firedAt = [p \in Callers |-> "none"]
  /\ spun = [p \in Callers |-> FALSE]
  /\ admitted = [l \in Limiters |-> [e \in Endpoints |-> 0]]
  /\ sinceDone = MinSpacing

\* a handler calls a.limiter.waitForEndpoint(ctx, endpoint)  (auth.go:1290, 1358, ...)
PoolNames == {agents[i].username : i \in 1..Len(agents)}

Begin(p, l, e) ==
  /\ pc[p] = "idle"
  /\ issued < MaxAcquires
  /\ l \in PoolNames
  /\ lim' = [lim EXCEPT ![p] = l]
  /\ ep' = [ep EXCEPT ![p] = e]
  /\ pc' = [pc EXCEPT ![p] = "select"]
  /\ issued' = issued + 1
  /\ UNCHANGED <<spun, lastCallAge, endpointCalls, rmu, timer, result, ctxDone,
                 firedAt, admitted, sinceDone>>

\* ratelimiter.go:89-91  case <-ctx.Done() of the outer select
OuterDoneIgnored(done) == FALSE
OuterDone(done) == done

\* ratelimiter.go:88-92  for { select { case <-ctx.Done(): return ctx.Err(); default:
Select(p) ==
  /\ pc[p] = "select"
  /\ IF OuterDone(ctxDone[p])
       THEN /\ pc' = [pc EXCEPT ![p] = "done"]
            /\ result' = [result EXCEPT ![p] = "Cancelled"]
       ELSE /\ pc' = [pc EXCEPT ![p] = "checkMap"]
            /\ UNCHANGED result
  /\ UNCHANGED <<spun, lastCallAge, endpointCalls, rmu, lim, ep, timer, ctxDone,
                 issued, firedAt, admitted, sinceDone>>

\* ratelimiter.go:54-64  r.mu.Lock(); lookup or create the endpointLimit; r.mu.Unlock()
MapAccess(p) ==
  /\ pc[p] = "checkMap"
  /\ rmu[lim[p]] = ""
  /\ endpointCalls' =
       IF endpointCalls[lim[p]][ep[p]].exists THEN endpointCalls
       ELSE [endpointCalls EXCEPT ![lim[p]][ep[p]] = NewEndpointLimit]
  /\ pc' = [pc EXCEPT ![p] = "checkLimit"]
  /\ UNCHANGED <<spun, lastCallAge, rmu, lim, ep, timer, result, ctxDone, issued,
                 firedAt, admitted, sinceDone>>

\* ratelimiter.go:72  if windowElapsed > limit.windowLength
WindowNeverExpires(windowElapsed, windowLength) == FALSE
WindowExpired(windowElapsed, windowLength) == windowElapsed > windowLength

\* ratelimiter.go:72-76  the window is reset and the call is let through
ResetWindow(l) == [l EXCEPT !.calls = 0, !.windowAge = 0]

\* ratelimiter.go:69-85  checkEndpointLimit on the endpoint's limit, under limit.mu
CheckEndpointLimitCountsRefused(l) ==
  IF WindowExpired(l.windowAge, l.windowLength)
    THEN [allowed |-> TRUE, waitTime |-> 0, limit |-> ResetWindow(l)]
    ELSE IF l.calls >= l.maxCalls
      THEN [allowed |-> FALSE, waitTime |-> l.windowLength - l.windowAge,
            limit |-> [l EXCEPT !.calls = @ + 1]]
      ELSE [allowed |-> TRUE, waitTime |-> 0,
            limit |-> [l EXCEPT !.calls = @ + 1]]
CheckEndpointLimit(l) ==
  IF WindowExpired(l.windowAge, l.windowLength)
    THEN [allowed |-> TRUE, waitTime |-> 0, limit |-> ResetWindow(l)]
    ELSE IF l.calls >= l.maxCalls
      THEN [allowed |-> FALSE, waitTime |-> l.windowLength - l.windowAge,
            limit |-> l]
      ELSE [allowed |-> TRUE, waitTime |-> 0,
            limit |-> [l EXCEPT !.calls = @ + 1]]

\* ratelimiter.go:66-85, 93, 98-100  the check and the branch waitForEndpoint takes
CheckLimit(p) ==
  /\ pc[p] = "checkLimit"
  /\ LET old == endpointCalls[lim[p]][ep[p]]
         r == CheckEndpointLimit(old)
         reset == r.limit.windowAge # old.windowAge
         had == IF reset THEN 0 ELSE admitted[lim[p]][ep[p]]
     IN /\ endpointCalls' = [endpointCalls EXCEPT ![lim[p]][ep[p]] = r.limit]
        /\ admitted' = [admitted EXCEPT ![lim[p]][ep[p]] =
                          IF r.allowed THEN had + 1 ELSE had]
        /\ IF r.allowed
             THEN /\ pc' = [pc EXCEPT ![p] = "global"]
                  /\ UNCHANGED <<timer, spun>>
             ELSE IF r.waitTime > 0
               THEN /\ pc' = [pc EXCEPT ![p] = "sleepQuota"]
                    /\ timer' = [timer EXCEPT ![p] = r.waitTime]
                    /\ UNCHANGED spun
               ELSE /\ pc' = [pc EXCEPT ![p] = "select"]
                    /\ spun' = [spun EXCEPT ![p] = TRUE]
                    /\ UNCHANGED timer
  /\ UNCHANGED <<lastCallAge, rmu, lim, ep, result, ctxDone, issued,
                 firedAt, sinceDone>>

\* ratelimiter.go:101-107  select { case <-ctx.Done(): ...; case <-timer.C: continue }
QuotaWait(p) ==
  /\ pc[p] = "sleepQuota"
  /\ \/ /\ ctxDone[p]
        /\ pc' = [pc EXCEPT ![p] = "done"]
        /\ result' = [result EXCEPT ![p] = "Cancelled"]
     \/ /\ timer[p] = 0
        /\ pc' = [pc EXCEPT ![p] = "select"]
        /\ UNCHANGED result
  /\ UNCHANGED <<spun, lastCallAge, endpointCalls, rmu, lim, ep, timer, ctxDone,
                 issued, firedAt, admitted, sinceDone>>

\* ratelimiter.go:44-46  the remainder of the 1500 ms spacing to sleep
GlobalWait(elapsed) == IF elapsed < MinSpacing THEN MinSpacing - elapsed ELSE 0

\* ratelimiter.go:41-47  r.mu.Lock(); elapsed; time.Sleep(waitTime) begins
GlobalLock(p) ==
  /\ pc[p] = "global"
  /\ rmu[lim[p]] = ""
  /\ rmu' = [rmu EXCEPT ![lim[p]] = p]
  /\ timer' = [timer EXCEPT ![p] = GlobalWait(lastCallAge[lim[p]])]
  /\ pc' = [pc EXCEPT ![p] = "sleepGlobal"]
  /\ UNCHANGED <<spun, lastCallAge, endpointCalls, lim, ep, result, ctxDone,
                 issued, firedAt, admitted, sinceDone>>

\* ratelimiter.go:47-50, 94-97  the sleep ends; lastCallTime = now; unlock; return nil
GlobalRecord(p) ==
  /\ pc[p] = "sleepGlobal"
  /\ timer[p] = 0
  /\ lastCallAge' = [lastCallAge EXCEPT ![lim[p]] = 0]
  /\ rmu' = [rmu EXCEPT ![lim[p]] = ""]
  /\ pc' = [pc EXCEPT ![p] = "done"]
  /\ result' = [result EXCEPT ![p] = "nil"]
  /\ sinceDone' = 0
  /\ UNCHANGED <<spun, endpointCalls, lim, ep, timer, ctxDone, issued, firedAt,
                 admitted>>

\* the handler takes the result of waitForEndpoint
Return(p) ==
  /\ pc[p] = "done"
  /\ pc' = [pc EXCEPT ![p] = "idle"]
  /\ result' = [result EXCEPT ![p] = ""]
  /\ ctxDone' = [ctxDone EXCEPT ![p] = FALSE]
  /\ firedAt' = [firedAt EXCEPT ![p] = "none"]
  /\ spun' = [spun EXCEPT ![p] = FALSE]
  /\ timer' = [timer EXCEPT ![p] = 0]
  /\ lim' = [lim EXCEPT ![p] = "acc1"]
  /\ ep' = [ep EXCEPT ![p] = "get_profile"]
  /\ UNCHANGED <<lastCallAge, endpointCalls, rmu, issued, admitted, sinceDone>>

\* the caller's context is cancelled while its waitForEndpoint call is in flight
Cancel(p) ==
  /\ pc[p] \notin {"idle", "done"}
  /\ ~ctxDone[p]
  /\ ctxDone' = [ctxDone EXCEPT ![p] = TRUE]
  /\ firedAt' = [firedAt EXCEPT ![p] =
        IF pc[p] \in {"checkMap", "global"} /\ rmu[lim[p]] # "" THEN "blockedOnMu"
        ELSE IF pc[p] \in {"sleepQuota", "sleepGlobal"} THEN pc[p]
        ELSE "running"]
  /\ UNCHANGED <<spun, lastCallAge, endpointCalls, rmu, pc, lim, ep, timer, result,
                 issued, admitted, sinceDone>>

\* one unit of time passes: every age grows, every running timer counts down
Tick ==
  /\ lastCallAge' = [l \in Limiters |-> Min(lastCallAge[l] + 1, MinSpacing)]
  /\ endpointCalls' = [l \in Limiters |-> [e \in Endpoints |->
        IF endpointCalls[l][e].exists
          THEN [endpointCalls[l][e] EXCEPT
                  !.windowAge = Min(@ + 1, endpointCalls[l][e].windowLength + 1)]
          ELSE endpointCalls[l][e]]]
  /\ timer' = [p \in Callers |-> Max(timer[p] - 1, 0)]
  /\ sinceDone' = Min(sinceDone + 1, MinSpacing)
  /\ UNCHANGED <<spun, rmu, pc, lim, ep, result, ctxDone, issued, firedAt,
                 admitted>>

(* ------------------------------------- smart users channel and its producers *)
\* part_001:95-104  the channel is made empty and open, the tasks are started
BgInit ==
  /\ newUsers = << >>
  /\ closed = FALSE
  /\ cancelled = FALSE
  /\ hpc = [h \in Requests |-> "idle"]
  /\ hitems = [h \in Requests |-> << >>]
  /\ nSent = 0
  /\ ppc = "select"
  /\ pcur = ""
  /\ prows = 0
  /\ tickerC = FALSE
  /\ lpc = [l \in Loops |-> "query"]
  /\ lrows = [l \in Loops |-> 0]
  /\ lfailed = [l \in Loops |-> {}]
  /\ accepted = << >>
  /\ warned = << >>
  /\ processed = << >>
  /\ closedWith = 0 - 1

chanVars == <<newUsers, accepted, warned, closedWith>>
reqVars == <<hpc, hitems, nSent>>
pipeVars == <<ppc, pcur, prows, tickerC, processed>>
loopVars == <<lpc, lrows, lfailed>>

\* handlers.go:419-426  the bulk insert succeeded; the loop over result.Items begins
RequestBegin(h, items) ==
  /\ hpc[h] = "idle"
  /\ nSent + Len(items) <= MaxSends
  /\ hpc' = [hpc EXCEPT ![h] = "sending"]
  /\ hitems' = [hitems EXCEPT ![h] = items]
  /\ nSent' = nSent + Len(items)
  /\ UNCHANGED <<chanVars, pipeVars, loopVars, closed, cancelled>>

\* handlers.go:429  a send on a buffered channel is ready unless the buffer is full
ChanNeverFull(q) == FALSE
ChanFull(q) == Len(q) >= QueueCap

\* handlers.go:426-435  one iteration: select { case newUsers <- username: default: }
\* (a send on a closed channel panics, also inside a select)
RequestSend(h) ==
  /\ hpc[h] = "sending"
  /\ hitems[h] # << >>
  /\ LET username == Head(hitems[h]) IN
       IF closed
         THEN /\ hpc' = [hpc EXCEPT ![h] = "panic"]
              /\ UNCHANGED <<hitems, newUsers, accepted, warned>>
         ELSE /\ hitems' = [hitems EXCEPT ![h] = Tail(@)]
              /\ UNCHANGED hpc
              /\ IF ChanFull(newUsers)
                   THEN /\ warned' = Append(warned, username)
                        /\ UNCHANGED <<newUsers, accepted>>
                   ELSE /\ newUsers' = Append(newUsers, username)
                        /\ accepted' = Append(accepted, username)
                        /\ UNCHANGED warned
  /\ UNCHANGED <<nSent, closedWith, pipeVars, loopVars, closed, cancelled>>

\* handlers.go:437-442  the loop is over, the response is written
RequestDone(h) ==
  /\ hpc[h] = "sending"
  /\ hitems[h] = << >>
  /\ hpc' = [hpc EXCEPT ![h] = "idle"]
  /\ UNCHANGED <<hitems, nSent, chanVars, pipeVars, loopVars, closed, cancelled>>

\* part_001:173  close(smartUsersChan)
CloseChan ==
  /\ ~closed
  /\ closed' = TRUE
  /\ closedWith' = Len(newUsers)
  /\ UNCHANGED <<newUsers, accepted, warned, reqVars, pipeVars, loopVars, cancelled>>

\* part_001:98-99  cancel() of the context given to StartSmartTweetUpdates
CancelCtx ==
  /\ ~cancelled
  /\ cancelled' = TRUE
  /\ UNCHANGED <<chanVars, reqVars, pipeVars, loopVars, closed>>

(* ------------------------------------------------ StartSmartTweetUpdates *)
\* background.go:229  the ticker puts a tick into ticker.C (dropped if one waits);
\* background.go:230  defer ticker.Stop()
TickerFire ==
  /\ ppc # "stopped"
  /\ ~tickerC
  /\ tickerC' = TRUE
  /\ UNCHANGED <<ppc, pcur, prows, processed, chanVars, reqVars, loopVars,
                 closed, cancelled>>

\* background.go:234-236  case <-ctx.Done(): return
PipeDone ==
  /\ ppc = "select"
  /\ cancelled
  /\ ppc' = "stopped"
  /\ UNCHANGED <<pcur, prows, tickerC, processed, chanVars, reqVars, loopVars,
                 closed, cancelled>>

\* background.go:237  username, ok := <-newUsers takes the oldest buffered value
ReceiveNewest(q) == [value |-> q[Len(q)], rest |-> SubSeq(q, 1, Len(q) - 1)]
Receive(q) == [value |-> Head(q), rest |-> Tail(q)]

\* background.go:237-244  case username, ok := <-newUsers with ok true
PipeReceive ==
  /\ ppc = "select"
  /\ newUsers # << >>
  /\ pcur' = Receive(newUsers).value
  /\ newUsers' = Receive(newUsers).rest
  /\ ppc' = "proc"
  /\ UNCHANGED <<prows, tickerC, processed, accepted, warned, closedWith,
                 reqVars, loopVars, closed, cancelled>>

\* background.go:237-238  a receive yields ok = false once the channel is closed
\* and its buffer is empty
RecvNotOkWhenClosed(q, c) == c
RecvNotOk(q, c) == c /\ q = << >>

\* background.go:238-241  if !ok { return }
PipeClosed ==
  /\ ppc = "select"
  /\ RecvNotOk(newUsers, closed)
  /\ ppc' = "stopped"
  /\ UNCHANGED <<pcur, prows, tickerC, processed, chanVars, reqVars, loopVars,
                 closed, cancelled>>

\* background.go:244-246, 287-338  processSmartUserTweets returns (nil or an
\* error that is logged); the loop goes back to the select
AfterProcessedReturn == "stopped"
AfterProcessed == "select"

\* background.go:244-247  the call returns; the select is entered again
PipeProcessed ==
  /\ ppc = "proc"
  /\ processed' = Append(processed, pcur)
  /\ pcur' = ""
  /\ ppc' = AfterProcessed
  /\ UNCHANGED <<prows, tickerC, chanVars, reqVars, loopVars, closed, cancelled>>

\* background.go:250-254  if err != nil { log; continue }: back to the select
ReturnFromLoop == "stopped"
ContinueLoop == "select"

\* background.go:247-254  case <-ticker.C: query smart_users; on an error continue
PipeSweep ==
  /\ ppc = "select"
  /\ tickerC
  /\ tickerC' = FALSE
  /\ \/ ppc' = ContinueLoop /\ UNCHANGED prows
     \/ \E n \in 0..MaxRows : prows' = n /\ ppc' = "rows"
  /\ UNCHANGED <<pcur, processed, chanVars, reqVars, loopVars, closed, cancelled>>

\* background.go:89-92, 96-99, 265-268  log and continue: the loop goes on with
\* the next row of rows
SkipRowAbortsPass(rows) == 0
SkipRow(rows) == rows - 1

\* background.go:259-275  for rows.Next() { select { case <-ctx.Done(): return
\* default: Scan; processSmartUserTweets begins } }
PipeRow ==
  /\ ppc = "rows"
  /\ IF prows = 0
       THEN ppc' = "select" /\ UNCHANGED prows
       ELSE IF cancelled
         THEN \* return from the closure; the outer loop selects again
              ppc' = "select" /\ UNCHANGED prows
         ELSE \/ \* rows.Scan failed: continue
                 ppc' = "rows" /\ prows' = SkipRow(prows)
              \/ ppc' = "rowProc" /\ UNCHANGED prows
  /\ UNCHANGED <<pcur, tickerC, processed, chanVars, reqVars, loopVars, closed,
                 cancelled>>

\* background.go:272-277  processSmartUserTweets returns; time.Sleep(10 s) begins
PipeRowProcessed ==
  /\ ppc = "rowProc"
  /\ ppc' = "rowSleep"
  /\ UNCHANGED <<pcur, prows, tickerC, processed, chanVars, reqVars, loopVars,
                 closed, cancelled>>

\* background.go:277  the sleep between two rows ends
PipeRowSlept ==
  /\ ppc = "rowSleep"
  /\ ppc' = "rows"
  /\ prows' = prows - 1
  /\ UNCHANGED <<pcur, tickerC, processed, chanVars, reqVars, loopVars, closed,
                 cancelled>>

PipeStep ==
  \/ PipeDone
  \/ PipeReceive
  \/ PipeClosed
  \/ PipeProcessed
  \/ PipeSweep
  \/ PipeRow
  \/ PipeRowProcessed
  \/ PipeRowSlept

(* ------------------------------- StartProfileUpdates, StartTweetUpdates *)
\* background.go:77-82, 153-158  db.Query; on an error log, sleep and continue
LoopQuery(l) ==
  /\ lpc[l] = "query"
  /\ \/ lpc' = [lpc EXCEPT ![l] = "errSleep"] /\ UNCHANGED <<lrows, lfailed>>
     \/ \E n \in 0..MaxWorklist :
          /\ lrows' = [lrows EXCEPT ![l] = n]
          /\ lfailed' = [lfailed EXCEPT ![l] = {}]
          /\ lpc' = [lpc EXCEPT ![l] = "rows"]
  /\ UNCHANGED <<chanVars, reqVars, pipeVars, closed, cancelled>>

\* background.go:80, 156  time.Sleep after a failed query ends
LoopErrSlept(l) ==
  /\ lpc[l] = "errSleep"
  /\ lpc' = [lpc EXCEPT ![l] = "query"]
  /\ UNCHANGED <<lrows, lfailed, chanVars, reqVars, pipeVars, closed,
                 cancelled>>

\* background.go:87-94, 163-171  for rows.Next() { Scan; the facade call begins
\* (agentManager.GetProfile / GetUserTweets with context.Background()) }
LoopRow(l) ==
  /\ lpc[l] = "rows"
  /\ IF lrows[l] = 0
       THEN lpc' = [lpc EXCEPT ![l] = "passSleep"] /\ UNCHANGED <<lrows, lfailed>>
       ELSE \/ \* rows.Scan failed: continue
               /\ lrows' = [lrows EXCEPT ![l] = SkipRow(@)]
               /\ lfailed' = [lfailed EXCEPT ![l] = @ \cup {"skipped"}]
               /\ UNCHANGED lpc
            \/ lpc' = [lpc EXCEPT ![l] = "fetch"] /\ UNCHANGED <<lrows, lfailed>>
  /\ UNCHANGED <<chanVars, reqVars, pipeVars, closed, cancelled>>

\* background.go:94-140, 171-214  the facade call returns: on an error (or a
\* conversion error) continue; else write to the database (an error of Exec
\* is logged), and the profile loop sleeps 10 s before its next row
LoopFetched(l) ==
  /\ lpc[l] = "fetch"
  /\ \/ /\ lrows' = [lrows EXCEPT ![l] = SkipRow(@)]
        /\ lfailed' = [lfailed EXCEPT ![l] = @ \cup {"skipped"}]
        /\ lpc' = [lpc EXCEPT ![l] = "rows"]
     \/ \E failure \in {{"logged"}, {}} :
          /\ lfailed' = [lfailed EXCEPT ![l] = @ \cup failure]
          /\ IF l = "profile"
               THEN lpc' = [lpc EXCEPT ![l] = "rowSleep"] /\ UNCHANGED lrows
               ELSE /\ lrows' = [lrows EXCEPT ![l] = @ - 1]
                    /\ lpc' = [lpc EXCEPT ![l] = "rows"]
  /\ UNCHANGED <<chanVars, reqVars, pipeVars, closed, cancelled>>

\* background.go:140  time.Sleep(10 * time.Second) ends
LoopRowSlept(l) ==
  /\ lpc[l] = "rowSleep"
  /\ lrows' = [lrows EXCEPT ![l] = @ - 1]
  /\ lpc' = [lpc EXCEPT ![l] = "rows"]
  /\ UNCHANGED <<lfailed, chanVars, reqVars, pipeVars, closed, cancelled>>

\* background.go:144, 218  the sleep between two passes ends
LoopPassSlept(l) ==
  /\ lpc[l] = "passSleep"
  /\ lpc' = [lpc EXCEPT ![l] = "query"]
  /\ UNCHANGED <<lrows, lfailed, chanVars, reqVars, pipeVars, closed,
                 cancelled>>

(* ------------------------------------------- tweets and smart_tweets tables *)
Tables == {"tweets", "smart_tweets"}
TweetIds == {"t1", "t2"}
\* what a fetch returns for a tweet: the columns written once ...
Contents ==
  {[tweeter_user_id |-> "a1", username |-> "alice", text |-> "first",
    time_parsed |-> 1],
   [tweeter_user_id |-> "a2", username |-> "bob", text |-> "edited",
    time_parsed |-> 2]}
\* ... and the counters
Counters ==
  {[likes |-> 0, replies |-> 0, retweets |-> 0, views |-> 0],
   [likes |-> 1, replies |-> 2, retweets |-> 3, views |-> 4],
   [likes |-> 1, replies |-> 0, retweets |-> 0, views |-> 9]}
WorklistKeys == {1, 2}   \* users.id / smart_users.id of the row being swept

\* background.go:193-199, 314-320  the column list and the VALUES of the INSERT
NewRow(id, userID, content, counters) ==
  [id |-> id, user_id |-> userID,
   tweeter_user_id |-> content.tweeter_user_id, username |-> content.username,
   text |-> content.text, time_parsed |-> content.time_parsed,
   likes |-> counters.likes, replies |-> counters.replies,
   retweets |-> counters.retweets, views |-> counters.views]
NoRow == [id |-> ""]
FetchedRows ==
  {NewRow(id, k, c, n) : id \in TweetIds, k \in WorklistKeys, c \in Contents,
                         n \in Counters}

\* migrations.go:51-78, 96-123  the tables are created empty
DbInit ==
  /\ tables = [t \in Tables |-> {}]
  /\ nExecs = 0
  /\ firstInsert = [t \in Tables |-> [id \in TweetIds |-> NoRow]]
  /\ lastUpsert = [t \in Tables |-> [id \in TweetIds |-> NoRow]]
  /\ completed = [t \in Tables |-> [id \in TweetIds |-> 0]]

\* background.go:200-204, 321-325  DO UPDATE SET likes = EXCLUDED.likes,
\* replies = EXCLUDED.replies, retweets = EXCLUDED.retweets, views = EXCLUDED.views
OnConflictReplace(old, new) == new
OnConflictUpdate(old, new) ==
  [old EXCEPT !.likes = new.likes, !.replies = new.replies,
              !.retweets = new.retweets, !.views = new.views]

\* background.go:192-204, 313-325  INSERT INTO ... VALUES (...) ON CONFLICT (id)
\* DO UPDATE SET ...; id is the PRIMARY KEY (migrations.go:52, 97)
InsertOnConflictAppend(rows, new) == rows \cup {new}
InsertOnConflict(rows, new) ==
  IF \E r \in rows : r.id = new.id
    THEN {IF r.id = new.id THEN OnConflictUpdate(r, new) ELSE r : r \in rows}
    ELSE rows \cup {new}

\* one db.Exec of the statement on table t: it returns nil, or an error (a
\* failed statement leaves the table as it was)
Exec(t, new) ==
  /\ nExecs < MaxExecs
  /\ nExecs' = nExecs + 1
  /\ \/ /\ tables' = [tables EXCEPT ![t] = InsertOnConflict(@, new)]
        /\ firstInsert' = [firstInsert EXCEPT ![t][new.id] =
                             IF @ = NoRow THEN new ELSE @]
        /\ lastUpsert' = [lastUpsert EXCEPT ![t][new.id] = new]
        /\ completed' = [completed EXCEPT ![t][new.id] = @ + 1]
     \/ UNCHANGED <<tables, firstInsert, lastUpsert, completed>>

\* background.go:191-212  StartTweetUpdates stores one fetched tweet
TweetsExec(new) == Exec("tweets", new)

\* background.go:312-333  processSmartUserTweets stores one fetched tweet
SmartTweetsExec(new) == Exec("smart_tweets", new)

(* ------------------------- checkEndpointLimit under r.mu and limit.mu *)
\* ratelimiter.go:57-61  &endpointLimit{...}; elapsed: time.Now() is later than
\* windowStart + windowLength
NewLimit == [mu |-> "", calls |-> 0, elapsed |-> FALSE]
NoRead == [elapsed |-> FALSE, calls |-> 0]

\* ratelimiter.go:33-38  newRateLimiter: an empty map, nobody inside
QInit ==
  /\ qmu = ""
  /\ qmap = 0
  /\ qobjs = << >>
  /\ qpc = [p \in Callers |-> "idle"]
  /\ qptr = [p \in Callers |-> 0]
  /\ qread = [p \in Callers |-> NoRead]
  /\ qret = [p \in Callers |-> "none"]
  /\ nChecks = 0
  /\ qgranted = << >>

\* ratelimiter.go:54, 66  sync.Mutex.Lock returns once nobody holds the mutex
FreeAlways(mu) == TRUE
Free(mu) == mu = ""

\* ratelimiter.go:93  waitForEndpoint calls r.checkEndpointLimit(endpoint)
QCall(p) ==
  /\ qpc[p] = "idle"
  /\ nChecks < MaxChecks
  /\ nChecks' = nChecks + 1
  /\ qpc' = [qpc EXCEPT ![p] = "lockMap"]
  /\ qptr' = [qptr EXCEPT ![p] = 0]
  /\ qread' = [qread EXCEPT ![p] = NoRead]
  /\ UNCHANGED <<qmu, qmap, qobjs, qret, qgranted>>

\* ratelimiter.go:54  r.mu.Lock()
QLockMap(p) ==
  /\ qpc[p] = "lockMap"
  /\ Free(qmu)
  /\ qmu' = p
  /\ qpc' = [qpc EXCEPT ![p] = "lookup"]
  /\ UNCHANGED <<qmap, qobjs, qptr, qread, qret, nChecks, qgranted>>

\* ratelimiter.go:55-56  limit, exists := r.endpointCalls[endpoint]; if !exists
QLookup(p) ==
  /\ qpc[p] = "lookup"
  /\ qptr' = [qptr EXCEPT ![p] = qmap]
  /\ qpc' = [qpc EXCEPT ![p] = IF qmap = 0 THEN "create" ELSE "unlockMap"]
  /\ UNCHANGED <<qmu, qmap, qobjs, qread, qret, nChecks, qgranted>>

\* ratelimiter.go:57-62  limit = &endpointLimit{...}; r.endpointCalls[endpoint] = limit
QCreate(p) ==
  /\ qpc[p] = "create"
  /\ qobjs' = Append(qobjs, NewLimit)
  /\ qgranted' = Append(qgranted, 0)
  /\ qmap' = Len(qobjs) + 1
  /\ qptr' = [qptr EXCEPT ![p] = Len(qobjs) + 1]
  /\ qpc' = [qpc EXCEPT ![p] = "unlockMap"]
  /\ UNCHANGED <<qmu, qread, qret, nChecks>>

\* ratelimiter.go:64  r.mu.Unlock()
QUnlockMap(p) ==
  /\ qpc[p] = "unlockMap"
  /\ qmu' = ""
  /\ qpc' = [qpc EXCEPT ![p] = "lockLimit"]
  /\ UNCHANGED <<qmap, qobjs, qptr, qread, qret, nChecks, qgranted>>

\* ratelimiter.go:66  limit.mu.Lock()
QLockLimit(p) ==
  /\ qpc[p] = "lockLimit"
  /\ Free(qobjs[qptr[p]].mu)
  /\ qobjs' = [qobjs EXCEPT ![qptr[p]].mu = p]
  /\ qpc' = [qpc EXCEPT ![p] = "read"]
  /\ UNCHANGED <<qmu, qmap, qptr, qread, qret, nChecks, qgranted>>

\* ratelimiter.go:69-72, 78, 83  the reads of limit.windowStart and limit.calls
QRead(p) ==
  /\ qpc[p] = "read"
  /\ qread' = [qread EXCEPT ![p] = [elapsed |-> qobjs[qptr[p]].elapsed,
                                       calls |-> qobjs[qptr[p]].calls]]
  /\ qpc' = [qpc EXCEPT ![p] = "write"]
  /\ UNCHANGED <<qmu, qmap, qobjs, qptr, qret, nChecks, qgranted>>

\* ratelimiter.go:72-84  the branch taken on what was read, and its writes
QWrite(p) ==
  /\ qpc[p] = "write"
  /\ qpc' = [qpc EXCEPT ![p] = "unlockLimit"]
  /\ IF qread[p].elapsed
       THEN /\ qobjs' = [qobjs EXCEPT ![qptr[p]].calls = 0,
                                      ![qptr[p]].elapsed = FALSE]
            /\ qgranted' = [qgranted EXCEPT ![qptr[p]] = 0]
            /\ qret' = [qret EXCEPT ![p] = "reset"]
       ELSE IF qread[p].calls >= DefaultMaxCalls
         THEN /\ qret' = [qret EXCEPT ![p] = "refused"]
              /\ UNCHANGED <<qobjs, qgranted>>
         ELSE /\ qobjs' = [qobjs EXCEPT ![qptr[p]].calls = qread[p].calls + 1]
              /\ qgranted' = [qgranted EXCEPT ![qptr[p]] = @ + 1]
              /\ qret' = [qret EXCEPT ![p] = "allowed"]
  /\ UNCHANGED <<qmu, qmap, qptr, qread, nChecks>>

\* ratelimiter.go:67  defer limit.mu.Unlock(), and the return
QUnlockLimit(p) ==
  /\ qpc[p] = "unlockLimit"
  /\ qobjs' = [qobjs EXCEPT ![qptr[p]].mu = ""]
  /\ qpc' = [qpc EXCEPT ![p] = "idle"]
  /\ UNCHANGED <<qmu, qmap, qptr, qread, qret, nChecks, qgranted>>

\* time passes beyond windowStart + windowLength of a limit
QWindowElapses(k) ==
  /\ ~qobjs[k].elapsed
  /\ qobjs' = [qobjs EXCEPT ![k].elapsed = TRUE]
  /\ UNCHANGED <<qmu, qmap, qpc, qptr, qread, qret, nChecks, qgranted>>

(* ------------------------------- the users table and the passes over it *)
Usernames == {"u1", "u2"}

\* migrations.go:12-48  the users table is created empty
WInit ==
  /\ users = [u \in Usernames |-> "absent"]
  /\ wpc = [l \in Loops |-> "query"]
  /\ wrows = [l \in Loops |-> << >>]
  /\ nPasses = 0
  /\ wfailed = [l \in Loops |-> {}]
  /\ inserted = {}

(* ------------------------------------------ storing a fetched batch *)
\* StartTweetUpdates stores into tweets, processSmartUserTweets into smart_tweets
Routines == {"tweets", "smart"}
\* the batches GetUserTweets may return
Batches == {<<"t1">>, <<"t1", "t2">>, <<"t2", "t1", "t3">>}

PInit ==
  /\ spc = [r \in Routines |-> "fetch"]
  /\ bbatch = [r \in Routines |-> << >>]
  /\ bres = [r \in Routines |-> << >>]
  /\ stored = [r \in Routines |-> {}]

\* background.go:171-188, 296-310  GetUserTweets returned the batch and it was
\* converted to []Tweet
PFetched(r) ==
  /\ spc[r] = "fetch"
  /\ \E b \in Batches : bbatch' = [bbatch EXCEPT ![r] = b]
  /\ bres' = [bres EXCEPT ![r] = << >>]
  /\ spc' = [spc EXCEPT ![r] = "range"]
  /\ UNCHANGED stored

\* background.go:211-213  the loop logs the error and goes to the next tweet
\* background.go:333-335  the routine returns the error
OnExecError(r) == IF r = "tweets" THEN "range" ELSE "return"

\* background.go:189-214, 311-336  one iteration of for _, tweet := range tweets
PExec(r) ==
  /\ spc[r] = "range"
  /\ Len(bres[r]) < Len(bbatch[r])
  /\ LET id == bbatch[r][Len(bres[r]) + 1] IN
       \/ /\ bres' = [bres EXCEPT ![r] = Append(@, "ok")]
          /\ stored' = [stored EXCEPT ![r] = @ \cup {id}]
          /\ UNCHANGED spc
       \/ /\ bres' = [bres EXCEPT ![r] = Append(@, "error")]
          /\ spc' = [spc EXCEPT ![r] = OnExecError(r)]
          /\ UNCHANGED stored
  /\ UNCHANGED bbatch

\* background.go:214, 336-337  the range is exhausted
PRangeEnd(r) ==
  /\ spc[r] = "range"
  /\ Len(bres[r]) = Len(bbatch[r])
  /\ spc' = [spc EXCEPT ![r] = "return"]
  /\ UNCHANGED <<bbatch, bres, stored>>

\* background.go:163, 263-271  the next row of the caller: the routine runs again
PNextRow(r) ==
  /\ spc[r] = "return"
  /\ spc' = [spc EXCEPT ![r] = "fetch"]
  /\ UNCHANGED <<bbatch, bres, stored>>

\* handlers.go:309-325  INSERT INTO users (...) ON CONFLICT (username) DO NOTHING
AddUser(u) ==
  /\ users[u] = "absent"
  /\ users' = [users EXCEPT ![u] = "null"]
  /\ inserted' = inserted \cup {u}
  /\ UNCHANGED <<wpc, wrows, nPasses, wfailed>>

\* background.go:77  SELECT username FROM users WHERE user_id IS NULL
\* background.go:153 SELECT username, id FROM users
Worklist(l, tbl) ==
  IF l = "profile" THEN {u \in Usernames : tbl[u] = "null"}
  ELSE {u \in Usernames : tbl[u] # "absent"}

\* the rows of a result, one after the other
RECURSIVE Rows(_)
Rows(S) == IF S = {} THEN << >>
           ELSE LET u == CHOOSE x \in S : TRUE IN <<u>> \o Rows(S \ {u})
Range(s) == {s[k] : k \in DOMAIN s}

\* background.go:77-82, 153-158  db.Query; on an error log, sleep and continue
WQuery(l) ==
  /\ wpc[l] = "query"
  /\ nPasses < MaxPasses
  /\ nPasses' = nPasses + 1
  /\ \/ wpc' = [wpc EXCEPT ![l] = "errSleep"] /\ UNCHANGED wrows
     \/ /\ wrows' = [wrows EXCEPT ![l] = Rows(Worklist(l, users))]
        /\ wpc' = [wpc EXCEPT ![l] = "rows"]
  /\ UNCHANGED <<users, wfailed, inserted>>

\* background.go:80, 156  time.Sleep after a failed query ends
WErrSlept(l) ==
  /\ wpc[l] = "errSleep"
  /\ wpc' = [wpc EXCEPT ![l] = "query"]
  /\ UNCHANGED <<users, wrows, nPasses, wfailed, inserted>>

\* background.go:87-94, 163-171  for rows.Next() { Scan; the facade call begins }
WRow(l) ==
  /\ wpc[l] = "rows"
  /\ IF wrows[l] = << >>
       THEN wpc' = [wpc EXCEPT ![l] = "passSleep"] /\ UNCHANGED wrows
       ELSE \/ \* rows.Scan failed: continue
               wrows' = [wrows EXCEPT ![l] = Tail(@)] /\ UNCHANGED wpc
            \/ wpc' = [wpc EXCEPT ![l] = "fetch"] /\ UNCHANGED wrows
  /\ UNCHANGED <<users, nPasses, wfailed, inserted>>

\* background.go:95-98, 172-175  the facade call returned an error: log and
\* continue; no statement is executed on users
OnFetchErrorDelete(tbl, u) == [tbl EXCEPT ![u] = "absent"]
OnFetchError(tbl, u) == tbl

\* background.go:114-133  UPDATE users SET user_id = $1, ... WHERE username = $28
UpdateProfile(tbl, u) == IF tbl[u] = "absent" THEN tbl ELSE [tbl EXCEPT ![u] = "set"]

\* background.go:94-140, 171-214  the facade call returns: on an error continue;
\* else the profile loop updates the users row (an error of Exec is logged) and
\* sleeps, and the tweets loop stores the tweets
WFetched(l) ==
  /\ wpc[l] = "fetch"
  /\ LET u == Head(wrows[l]) IN
       \/ /\ users' = OnFetchError(users, u)
          /\ wfailed' = [wfailed EXCEPT ![l] = @ \cup {u}]
          /\ wrows' = [wrows EXCEPT ![l] = Tail(@)]
          /\ wpc' = [wpc EXCEPT ![l] = "rows"]
       \/ /\ wfailed' = [wfailed EXCEPT ![l] = @ \ {u}]
          /\ IF l = "profile"
               THEN /\ \/ users' = UpdateProfile(users, u)
                       \/ UNCHANGED users
                    /\ wpc' = [wpc EXCEPT ![l] = "rowSleep"]
                    /\ UNCHANGED wrows
               ELSE /\ wrows' = [wrows EXCEPT ![l] = Tail(@)]
                    /\ wpc' = [wpc EXCEPT ![l] = "rows"]
                    /\ UNCHANGED users
  /\ UNCHANGED <<nPasses, inserted>>

\* background.go:140  time.Sleep(10 * time.Second) ends
WRowSlept(l) ==
  /\ wpc[l] = "rowSleep"
  /\ wrows' = [wrows EXCEPT ![l] = Tail(@)]
  /\ wpc' = [wpc EXCEPT ![l] = "rows"]
  /\ UNCHANGED <<users, nPasses, wfailed, inserted>>

\* background.go:144, 218  the sleep between two passes ends
WPassSlept(l) ==
  /\ wpc[l] = "passSleep"
  /\ wpc' = [wpc EXCEPT ![l] = "query"]
  /\ UNCHANGED <<users, wrows, nPasses, wfailed, inserted>>

(* ------------------------------------------------- tool handlers of an Agent *)
LoginTools == {"search_tweets", "create_tweet", "like_tweet", "unlike_tweet",
               "retweet"}
\* request.Params.Arguments[name]: absent, or a string
Arguments == {[present |-> FALSE, value |-> ""], [present |-> TRUE, value |-> ""],
              [present |-> TRUE, value |-> "123"]}
LoginRequiredText ==
  "This tool requires login. Please provide Twitter cookies to use this tool."
\* auth.go:1488, 1584, 1659, 1845, 1907  the text for a missing parameter
RequiredText(tool) ==
  CASE tool = "search_tweets" -> "query parameter is required"
    [] tool = "create_tweet" -> "text parameter is required"
    [] OTHER -> "tweet_id is required"
NoToolCall == [tool |-> "", arg |-> [present |-> FALSE, value |-> ""],
               loggedIn |-> FALSE, isError |-> FALSE, text |-> "",
               waited |-> FALSE, scraped |-> FALSE]

\* auth.go:940-948, 992-998  the scraper of a new agent is not logged in
HdInit ==
  /\ isLoggedIn = FALSE
  /\ toolCall = NoToolCall
  /\ nToolCalls = 0

\* auth.go:897, 915, 1002-1004  cookies are set (or the mock's flag is assigned)
SetLoggedIn(b) ==
  /\ isLoggedIn # b
  /\ isLoggedIn' = b
  /\ UNCHANGED <<toolCall, nToolCalls>>

\* auth.go:1470, 1566, 1641, 1827, 1889  if !a.scraper.IsLoggedIn() { return ... }
LoginGateOpen(loggedIn) == FALSE
LoginGate(loggedIn) == ~loggedIn

\* auth.go:1481-1482, 1577-1578, 1654-1655  v, ok := Arguments[name].(string);
\* if !ok || v == ""
ArgMissing(arg) == ~arg.present \/ arg.value = ""

\* auth.go:1469-1563, 1565-1638, 1640-1700, 1826-1886, 1888-1948  one handler
\* call: the login check, the parameter check, waitForEndpoint, the scraper
\* call (wait and scrape are what the two calls return: "nil" or "err")
HandleLoginTool(tool, arg, wait, scrape) ==
  /\ nToolCalls < MaxToolCalls
  /\ nToolCalls' = nToolCalls + 1
  /\ UNCHANGED isLoggedIn
  /\ LET call == [NoToolCall EXCEPT !.tool = tool, !.arg = arg,
                                    !.loggedIn = isLoggedIn] IN
       toolCall' =
         IF LoginGate(isLoggedIn)
           THEN [call EXCEPT !.isError = TRUE, !.text = LoginRequiredText]
         ELSE IF ArgMissing(arg)
           THEN [call EXCEPT !.isError = TRUE, !.text = RequiredText(tool)]
         ELSE IF wait = "err"
           THEN [call EXCEPT !.isError = TRUE, !.text = "rate limit error",
                             !.waited = TRUE]
         ELSE IF scrape = "err"
           THEN [call EXCEPT !.isError = TRUE, !.text = "scraper error",
                             !.waited = TRUE, !.scraped = TRUE]
         ELSE [call EXCEPT !.text = "done", !.waited = TRUE, !.scraped = TRUE]

(* ------------------------------------ handlers that wait for the limiter *)
FetchTools == {"get_profile", "get_user_tweets"}
\* the goroutine serving the tool requests
GateCallers == {"g1"}

\* auth.go:1290, 1358  the endpoint name the handler passes to waitForEndpoint
LimiterEndpoint(tool) ==
  CASE tool = "get_profile" -> "get_profile"
    [] tool = "get_user_tweets" -> "get_user_tweets"

NoGateCall == [phase |-> "none", tool |-> "", agent |-> "", waitedOn |-> "",
               endpoint |-> "", waitResult |-> "", scraped |-> FALSE,
               isError |-> FALSE, text |-> ""]

GInit == gcall = [p \in Callers |-> NoGateCall]

\* auth.go:1271-1282, 1344-1355  the username parameter is missing: the handler
\* returns before it reaches the limiter
GReject(p, a, tool, arg) ==
  /\ pc[p] = "idle"
  /\ issued < MaxGateCalls
  /\ a \in PoolNames
  /\ ArgMissing(arg)
  /\ gcall' = [gcall EXCEPT ![p] =
       [NoGateCall EXCEPT !.phase = "returned", !.tool = tool, !.agent = a,
                          !.isError = TRUE,
                          !.text = "username parameter is required"]]
  /\ UNCHANGED rlVars

\* auth.go:1290, 1358  a.limiter.waitForEndpoint(ctx, name) is called
GWait(p, a, tool, arg) ==
  /\ ~ArgMissing(arg)
  /\ issued < MaxGateCalls
  /\ Begin(p, a, LimiterEndpoint(tool))
  /\ gcall' = [gcall EXCEPT ![p] =
       [NoGateCall EXCEPT !.phase = "waiting", !.tool = tool, !.agent = a]]

\* auth.go:1290, 1358  if err := a.limiter.waitForEndpoint(...); err != nil
RateLimitedNever(err) == FALSE
RateLimited(err) == err # "nil"

\* auth.go:1290-1302, 1358-1381  waitForEndpoint has returned: on an error the
\* handler returns "rate limit error"; else it calls the scraper (scrape is
\* what the scraper returns)
GTake(p, scrape) ==
  /\ gcall[p].phase = "waiting"
  /\ LET call == [gcall[p] EXCEPT !.phase = "returned", !.waitedOn = lim[p],
                                  !.endpoint = ep[p], !.waitResult = result[p]]
     IN gcall' = [gcall EXCEPT ![p] =
          IF RateLimited(result[p])
            THEN [call EXCEPT !.isError = TRUE, !.text = "rate limit error"]
          ELSE IF scrape = "err"
            THEN [call EXCEPT !.scraped = TRUE, !.isError = TRUE,
                              !.text = "scraper error"]
          ELSE [call EXCEPT !.scraped = TRUE, !.text = "done"]]
  /\ Return(p)

(* ------------------------------------------------------ main's shutdown *)
\* part_001:138-149  the server is started and serves requests
MInit == mpc = "serving"

\* part_001:152-161  a signal or a server error ends the blocking select
MainSignal ==
  /\ mpc = "serving"
  /\ mpc' = "shutdown"
  /\ UNCHANGED bgVars

\* part_001:164-170  srv.Shutdown(shutdownCtx) returns: nil when no request is
\* in progress any more, or the error of the context after its 10 s timeout,
\* which is logged; requests in progress are not interrupted
MainShutdownReturns ==
  /\ mpc = "shutdown"
  /\ mpc' = "close"
  /\ UNCHANGED bgVars

\* part_001:172-173  close(smartUsersChan)
MainClose ==
  /\ mpc = "close"
  /\ mpc' = "deferred"
  /\ CloseChan

\* part_001:174  main returns after its deferred calls: the process exits
MainReturn ==
  /\ mpc = "deferred"
  /\ mpc' = "exited"
  /\ UNCHANGED bgVars

(* ------------------------------------- the locks taken in waitForEndpoint *)
LockCallers == {"k1", "k2", "k3"}
NoEndpointLimit == [exists |-> FALSE, mu |-> "", calls |-> 0, elapsed |-> FALSE]

\* ratelimiter.go:33-38  newRateLimiter: an empty map, nobody inside
KInit ==
  /\ kmu = ""
  /\ klimit = [e \in Endpoints |-> NoEndpointLimit]
  /\ kpc = [p \in LockCallers |-> "idle"]
  /\ kep = [p \in LockCallers |-> "get_profile"]
  /\ kallowed = [p \in LockCallers |-> FALSE]
  /\ nLockCalls = 0

\* a handler calls waitForEndpoint(ctx, endpoint); kep and kallowed are locals
\* of the call and hold their initial values outside it
KCall(p, e) ==
  /\ kpc[p] = "idle"
  /\ nLockCalls < MaxLockCalls
  /\ nLockCalls' = nLockCalls + 1
  /\ kep' = [kep EXCEPT ![p] = e]
  /\ kpc' = [kpc EXCEPT ![p] = "select"]
  /\ UNCHANGED <<kmu, klimit, kallowed>>

\* ratelimiter.go:88-93  select: ctx is done and the call returns, or default
KSelect(p) ==
  /\ kpc[p] = "select"
  /\ \/ kpc' = [kpc EXCEPT ![p] = "idle"] /\ kep' = [kep EXCEPT ![p] = "get_profile"]
     \/ kpc' = [kpc EXCEPT ![p] = "lockMap"] /\ UNCHANGED kep
  /\ UNCHANGED <<kmu, klimit, kallowed, nLockCalls>>

\* ratelimiter.go:54  r.mu.Lock()
KLockMap(p) ==
  /\ kpc[p] = "lockMap"
  /\ Free(kmu)
  /\ kmu' = p
  /\ kpc' = [kpc EXCEPT ![p] = "lookup"]
  /\ UNCHANGED <<klimit, kep, kallowed, nLockCalls>>

\* ratelimiter.go:55-62  the endpointLimit is looked up, and created if missing
KLookup(p) ==
  /\ kpc[p] = "lookup"
  /\ klimit' = IF klimit[kep[p]].exists THEN klimit
               ELSE [klimit EXCEPT ![kep[p]].exists = TRUE]
  /\ kpc' = [kpc EXCEPT ![p] = "unlockMap"]
  /\ UNCHANGED <<kmu, kep, kallowed, nLockCalls>>

\* ratelimiter.go:64  r.mu.Unlock() comes before limit.mu.Lock()
AfterMapUnlockKept(holder) == holder
AfterMapUnlock(holder) == ""

\* ratelimiter.go:64  r.mu.Unlock()
KUnlockMap(p) ==
  /\ kpc[p] = "unlockMap"
  /\ kmu' = AfterMapUnlock(kmu)
  /\ kpc' = [kpc EXCEPT ![p] = "lockLimit"]
  /\ UNCHANGED <<klimit, kep, kallowed, nLockCalls>>

\* ratelimiter.go:66  limit.mu.Lock()
KLockLimit(p) ==
  /\ kpc[p] = "lockLimit"
  /\ Free(klimit[kep[p]].mu)
  /\ klimit' = [klimit EXCEPT ![kep[p]].mu = p]
  /\ kpc' = [kpc EXCEPT ![p] = "check"]
  /\ UNCHANGED <<kmu, kep, kallowed, nLockCalls>>

\* ratelimiter.go:69-84  the window is reset, or the call refused, or counted
KCheck(p) ==
  /\ kpc[p] = "check"
  /\ LET l == klimit[kep[p]] IN
       IF l.elapsed
         THEN /\ klimit' = [klimit EXCEPT ![kep[p]].calls = 0,
                                          ![kep[p]].elapsed = FALSE]
              /\ kallowed' = [kallowed EXCEPT ![p] = TRUE]
         ELSE IF l.calls >= DefaultMaxCalls
           THEN /\ kallowed' = [kallowed EXCEPT ![p] = FALSE]
                /\ UNCHANGED klimit
           ELSE /\ klimit' = [klimit EXCEPT ![kep[p]].calls = @ + 1]
                /\ kallowed' = [kallowed EXCEPT ![p] = TRUE]
  /\ kpc' = [kpc EXCEPT ![p] = "unlockLimit"]
  /\ UNCHANGED <<kmu, kep, nLockCalls>>

\* ratelimiter.go:67, 93-108  defer limit.mu.Unlock() runs at the return; then
\* waitForEndpoint goes to waitForGlobalLimit, or to the timer when waitTime > 0,
\* or round the loop
KUnlockLimit(p) ==
  /\ kpc[p] = "unlockLimit"
  /\ klimit' = [klimit EXCEPT ![kep[p]].mu = ""]
  /\ IF kallowed[p]
       THEN kpc' = [kpc EXCEPT ![p] = "lockGlobal"]
       ELSE \/ kpc' = [kpc EXCEPT ![p] = "sleepQuota"]
            \/ kpc' = [kpc EXCEPT ![p] = "select"]
  /\ kallowed' = [kallowed EXCEPT ![p] = FALSE]
  /\ UNCHANGED <<kmu, kep, nLockCalls>>

\* ratelimiter.go:100-108  the timer fires: continue; or ctx is done: return
KQuotaWake(p) ==
  /\ kpc[p] = "sleepQuota"
  /\ \/ kpc' = [kpc EXCEPT ![p] = "select"] /\ UNCHANGED kep
     \/ kpc' = [kpc EXCEPT ![p] = "idle"] /\ kep' = [kep EXCEPT ![p] = "get_profile"]
  /\ UNCHANGED <<kmu, klimit, kallowed, nLockCalls>>

\* ratelimiter.go:41-47  r.mu.Lock(); defer r.mu.Unlock(); time.Sleep begins
KLockGlobal(p) ==
  /\ kpc[p] = "lockGlobal"
  /\ Free(kmu)
  /\ kmu' = p
  /\ kpc' = [kpc EXCEPT ![p] = "sleepGlobal"]
  /\ UNCHANGED <<klimit, kep, kallowed, nLockCalls>>

\* ratelimiter.go:47-50, 94-96  the sleep ends; lastCallTime; unlock; return nil
KGlobalDone(p) ==
  /\ kpc[p] = "sleepGlobal"
  /\ kmu' = ""
  /\ kpc' = [kpc EXCEPT ![p] = "idle"]
  /\ kep' = [kep EXCEPT ![p] = "get_profile"]
  /\ UNCHANGED <<klimit, kallowed, nLockCalls>>

\* time passes beyond windowStart + windowLength of an endpoint's limit
KWindowElapses(e) ==
  /\ klimit[e].exists
  /\ ~klimit[e].elapsed
  /\ klimit' = [klimit EXCEPT ![e].elapsed = TRUE]
  /\ UNCHANGED <<kmu, kpc, kep, kallowed, nLockCalls>>

(* ------------------------------ what a waitForEndpoint call has written *)
FInit == wrote = [p \in Callers |-> {}]

\* ratelimiter.go:87  the call begins: it has written nothing
FBegin(p, l, e) ==
  /\ Begin(p, l, e)
  /\ wrote' = [wrote EXCEPT ![p] = {}]

\* ratelimiter.go:57-61  the call puts a new endpointLimit, with windowStart =
\* time.Now(), into the map
FMapAccess(p) ==
  /\ MapAccess(p)
  /\ wrote' = [wrote EXCEPT ![p] =
       IF endpointCalls[lim[p]][ep[p]].exists THEN @ ELSE @ \cup {"created"}]

\* ratelimiter.go:73-74, 83  the assignments of checkEndpointLimit to limit.calls
\* and limit.windowStart
FCheckLimit(p) ==
  /\ CheckLimit(p)
  /\ LET old == endpointCalls[lim[p]][ep[p]]
         new == endpointCalls'[lim[p]][ep[p]]
     IN wrote' = [wrote EXCEPT ![p] =
          @ \cup (IF new.calls # old.calls THEN {"calls"} ELSE {})
            \cup (IF new.windowAge # old.windowAge THEN {"windowStart"} ELSE {})]

\* ratelimiter.go:49  r.lastCallTime = time.Now()
FGlobalRecord(p) ==
  /\ GlobalRecord(p)
  /\ wrote' = [wrote EXCEPT ![p] = @ \cup {"lastCallTime"}]

\* the handler takes the result of waitForEndpoint
FReturn(p) ==
  /\ Return(p)
  /\ wrote' = [wrote EXCEPT ![p] = {}]

(* ------------------------------ smart_users, filled before the channel *)
\* migrations.go:80-93  smart_users is created empty
SInit ==
  /\ smartUsers = {}
  /\ dresp = [h \in Requests |-> 0]
  /\ lookups = {}

\* handlers.go:374-416  one INSERT INTO smart_users with a row for every item of
\* result.Items, ON CONFLICT (username) DO UPDATE
BulkInsertFirst(tbl, items) == tbl \cup {items[1]}
BulkInsert(tbl, items) == tbl \cup Range(items)

\* handlers.go:419-423  db.Exec returned an error: http.Error(500) and return
DInsertFailed(h, items) ==
  /\ hpc[h] = "idle"
  /\ dresp[h] # 500
  /\ dresp' = [dresp EXCEPT ![h] = 500]
  /\ UNCHANGED <<smartUsers, lookups, bgVars>>

\* handlers.go:419-426  db.Exec returned nil: the rows are in the table and the
\* loop over result.Items begins
DInserted(h, items) ==
  /\ smartUsers' = BulkInsert(smartUsers, items)
  /\ RequestBegin(h, items)
  /\ dresp' = [dresp EXCEPT ![h] = 0]
  /\ UNCHANGED lookups

\* handlers.go:437-442  the response with "status": "success"
DDone(h) ==
  /\ RequestDone(h)
  /\ dresp' = [dresp EXCEPT ![h] = 200]
  /\ UNCHANGED <<smartUsers, lookups>>

\* background.go:244, 287-293  processSmartUserTweets looks the username up:
\* QueryRow(...).Scan fails with sql.ErrNoRows when there is no row
DProcessed ==
  /\ lookups' = lookups \cup {[username |-> pcur, found |-> pcur \in smartUsers]}
  /\ PipeProcessed
  /\ UNCHANGED <<smartUsers, dresp>>

\* the sub-models added after the limiter: each starts in its initial state
NewInit ==
  /\ WInit
  /\ PInit
  /\ GInit
  /\ MInit
  /\ KInit
  /\ FInit
  /\ SInit

(* -------------------------------------------------------- specifications *)
\* the manager as NewAgentManager returns it for n accounts restored from cookies
BootedAt(n, start) ==
  /\ accounts = AccountList(n)
  /\ cookieFiles = {accounts[i] : i \in 1..n}
  /\ bpc = "done"
  /\ bi = n + 1
  /\ built = [i \in 1..n |-> [username |-> accounts[i], loggedIn |-> TRUE,
                              cookies |-> "file"]]
  /\ cur = built[n]
  /\ bootErr = NoErr
  /\ mgr = TRUE
  /\ agents = built
  /\ index = start
  /\ npc = [c \in NextCallers |-> "idle"]
  /\ nlocal = [c \in NextCallers |-> Uint32(0)]
  /\ nret = [c \in NextCallers |-> ""]
  /\ nAdds = 0
  /\ ncall = [c \in NextCallers |-> 0]
  /\ handed = << >>
  /\ sel = [k \in 1..MaxNext |-> -1]
  /\ loginFailed = ""
  /\ boots = 1
  /\ loginCalls = {}
  /\ fresh = [b \in 1..MaxBoots |-> {}]
  /\ restored = {}
  /\ bootLog = [j \in 1..n |-> [step |-> "restore", user |-> accounts[j],
                                 authed |-> TRUE]]
  /\ acc = NoCall
  /\ nAcc = 0
  /\ opres = [c \in NextCallers |-> NoOp]

Booted(n) == BootedAt(n, Uint32(0))

InitAM ==
  /\ AmInit
  /\ RlInit
  /\ BgInit
  /\ DbInit
  /\ HdInit
  /\ QInit
  /\ NewInit

NextAM ==
  \/ BootLoad /\ UNCHANGED exceptAm
  \/ BootRestore /\ UNCHANGED exceptAm
  \/ BootLogin /\ UNCHANGED exceptAm
  \/ BootSave /\ UNCHANGED exceptAm
  \/ BootFinish /\ UNCHANGED exceptAm
  \/ \E c \in NextCallers : NextAdd(c) /\ UNCHANGED exceptAm
  \/ \E c \in NextCallers : NextSelect(c) /\ UNCHANGED exceptAm
  \/ \E c \in NextCallers : NextReturn(c) /\ UNCHANGED exceptAm

\* bootstrap and rotation
SpecAM == InitAM /\ [][NextAM]_vars

\* a manager as NewAgentManager returns it, for every number of accounts
InitOps ==
  /\ \E n \in 1..MaxAccounts : Booted(n)
  /\ RlInit
  /\ BgInit
  /\ DbInit
  /\ HdInit
  /\ QInit
  /\ NewInit

NextOps ==
  \/ \E c \in NextCallers : NextAdd(c) /\ UNCHANGED exceptAm
  \/ \E c \in NextCallers : NextSelect(c) /\ UNCHANGED exceptAm
  \/ \E c \in NextCallers : NextReturn(c) /\ UNCHANGED exceptAm
  \/ \E c \in NextCallers : OpHandle(c) /\ UNCHANGED exceptAm
  \/ \E c \in NextCallers : OpReturn(c) /\ UNCHANGED exceptAm
  \/ \E i \in Indices : GetAgent(i) /\ UNCHANGED exceptAm
  \/ \E i \in Indices : SetCookies(i) /\ UNCHANGED exceptAm
  \/ GetAgentCount /\ UNCHANGED exceptAm

\* the operations of a manager, called concurrently
SpecOps == InitOps /\ [][NextOps]_vars

InitBoot ==
  /\ AmInit
  /\ RlInit
  /\ BgInit
  /\ DbInit
  /\ HdInit
  /\ QInit
  /\ NewInit

NextBoot ==
  \/ BootLoad /\ UNCHANGED exceptAm
  \/ BootRestore /\ UNCHANGED exceptAm
  \/ BootLogin /\ UNCHANGED exceptAm
  \/ BootSave /\ UNCHANGED exceptAm
  \/ BootFinish /\ UNCHANGED exceptAm
  \/ Restart /\ UNCHANGED exceptAm

\* the bootstrap over successive process starts
SpecBoot == InitBoot /\ [][NextBoot]_vars

CallerStep(p) ==
  \/ Select(p)
  \/ MapAccess(p)
  \/ CheckLimit(p)
  \/ QuotaWait(p)
  \/ GlobalLock(p)
  \/ GlobalRecord(p)

\* the steps of the callers of the limiters, for handlers of the endpoints E
StepRL(E) ==
  \/ \E p \in Callers, l \in Limiters, e \in E :
        Begin(p, l, e) /\ UNCHANGED exceptRl
  \/ \E p \in Callers : Select(p) /\ UNCHANGED exceptRl
  \/ \E p \in Callers : MapAccess(p) /\ UNCHANGED exceptRl
  \/ \E p \in Callers : CheckLimit(p) /\ UNCHANGED exceptRl
  \/ \E p \in Callers : QuotaWait(p) /\ UNCHANGED exceptRl
  \/ \E p \in Callers : GlobalLock(p) /\ UNCHANGED exceptRl
  \/ \E p \in Callers : GlobalRecord(p) /\ UNCHANGED exceptRl
  \/ \E p \in Callers : Return(p) /\ UNCHANGED exceptRl
  \/ \E p \in Callers : Cancel(p) /\ UNCHANGED exceptRl
  \/ Tick /\ UNCHANGED exceptRl

InitRL ==
  /\ Booted(1)
  /\ RlInit
  /\ BgInit
  /\ DbInit
  /\ HdInit
  /\ QInit
  /\ NewInit

\* one agent's rate limiter under concurrent callers
NextRL == StepRL({"get_profile"})
SpecRL == InitRL /\ [][NextRL]_vars

\* a goroutine that can run does run, and time advances
FairRL ==
  /\ SpecRL
  /\ WF_vars(Tick /\ UNCHANGED exceptRl)
  /\ \A p \in Callers : WF_vars(CallerStep(p) /\ UNCHANGED exceptRl)

InitPool ==
  /\ Booted(2)
  /\ RlInit
  /\ BgInit
  /\ DbInit
  /\ HdInit
  /\ QInit
  /\ NewInit

\* the rate limiters of a pool of two agents
SpecPool == InitPool /\ [][NextRL]_vars

\* one agent's rate limiter, used by the handlers of two endpoints
NextEndpoints == StepRL(Endpoints)
SpecEndpoints == InitRL /\ [][NextEndpoints]_vars

InitBG ==
  /\ Booted(1)
  /\ RlInit
  /\ BgInit
  /\ DbInit
  /\ HdInit
  /\ QInit
  /\ NewInit

NextBG ==
  \/ \E h \in Requests, items \in ItemLists :
        RequestBegin(h, items) /\ UNCHANGED exceptBg
  \/ \E h \in Requests : RequestSend(h) /\ UNCHANGED exceptBg
  \/ \E h \in Requests : RequestDone(h) /\ UNCHANGED exceptBg
  \/ CloseChan /\ UNCHANGED exceptBg
  \/ CancelCtx /\ UNCHANGED exceptBg
  \/ TickerFire /\ UNCHANGED exceptBg
  \/ PipeDone /\ UNCHANGED exceptBg
  \/ PipeReceive /\ UNCHANGED exceptBg
  \/ PipeClosed /\ UNCHANGED exceptBg
  \/ PipeProcessed /\ UNCHANGED exceptBg
  \/ PipeSweep /\ UNCHANGED exceptBg
  \/ PipeRow /\ UNCHANGED exceptBg
  \/ PipeRowProcessed /\ UNCHANGED exceptBg
  \/ PipeRowSlept /\ UNCHANGED exceptBg

\* the smart users channel, the requests that fill it and the goroutine that
\* empties it
SpecBG == InitBG /\ [][NextBG]_vars

\* the goroutine runs when it can; Go's select picks among its ready cases at
\* random, so a case that is ready again and again is taken sooner or later:
\* background.go:237  case username, ok := <-newUsers is one case, ready with
\* a buffered value (PipeReceive) or with ok = false (PipeClosed)
FairBG ==
  /\ SpecBG
  /\ WF_vars(PipeStep /\ UNCHANGED exceptBg)
  /\ SF_vars((PipeReceive \/ PipeClosed) /\ UNCHANGED exceptBg)

InitLoops ==
  /\ Booted(1)
  /\ RlInit
  /\ BgInit
  /\ DbInit
  /\ HdInit
  /\ QInit
  /\ NewInit

NextLoops ==
  \/ \E l \in Loops : LoopQuery(l) /\ UNCHANGED exceptBg
  \/ \E l \in Loops : LoopErrSlept(l) /\ UNCHANGED exceptBg
  \/ \E l \in Loops : LoopRow(l) /\ UNCHANGED exceptBg
  \/ \E l \in Loops : LoopFetched(l) /\ UNCHANGED exceptBg
  \/ \E l \in Loops : LoopRowSlept(l) /\ UNCHANGED exceptBg
  \/ \E l \in Loops : LoopPassSlept(l) /\ UNCHANGED exceptBg
  \/ CancelCtx /\ UNCHANGED exceptBg
  \/ CloseChan /\ UNCHANGED exceptBg
  \/ TickerFire /\ UNCHANGED exceptBg
  \/ PipeDone /\ UNCHANGED exceptBg
  \/ PipeClosed /\ UNCHANGED exceptBg
  \/ PipeSweep /\ UNCHANGED exceptBg
  \/ PipeRow /\ UNCHANGED exceptBg
  \/ PipeRowProcessed /\ UNCHANGED exceptBg
  \/ PipeRowSlept /\ UNCHANGED exceptBg

\* the three background goroutines with the channel left empty
SpecLoops == InitLoops /\ [][NextLoops]_vars

\* agent_manager.go:27, 94  index is a uint32 that every call increments: after
\* 2^32 - k calls it is k short of wrapping to 0
NearWrap(k) == [hi |-> Half - 1, lo |-> Half - k]

InitWrap ==
  /\ \E n \in 1..MaxAccounts, k \in 1..3 : BootedAt(n, NearWrap(k))
  /\ RlInit
  /\ BgInit
  /\ DbInit
  /\ HdInit
  /\ QInit
  /\ NewInit

NextWrap ==
  \/ \E c \in NextCallers : NextAdd(c) /\ UNCHANGED exceptAm
  \/ \E c \in NextCallers : NextSelect(c) /\ UNCHANGED exceptAm
  \/ \E c \in NextCallers : NextReturn(c) /\ UNCHANGED exceptAm

\* getNextAgent on a manager that has served almost 2^32 calls
SpecWrap == InitWrap /\ [][NextWrap]_vars

InitWorklist ==
  /\ Booted(1)
  /\ RlInit
  /\ BgInit
  /\ DbInit
  /\ HdInit
  /\ QInit
  /\ WInit
  /\ PInit
  /\ GInit
  /\ MInit
  /\ KInit
  /\ FInit
  /\ SInit

NextWorklist ==
  \/ \E u \in Usernames : AddUser(u) /\ UNCHANGED exceptW
  \/ \E l \in Loops : WQuery(l) /\ UNCHANGED exceptW
  \/ \E l \in Loops : WErrSlept(l) /\ UNCHANGED exceptW
  \/ \E l \in Loops : WRow(l) /\ UNCHANGED exceptW
  \/ \E l \in Loops : WFetched(l) /\ UNCHANGED exceptW
  \/ \E l \in Loops : WRowSlept(l) /\ UNCHANGED exceptW
  \/ \E l \in Loops : WPassSlept(l) /\ UNCHANGED exceptW

\* the two sweep loops over the rows of users, and the handler that adds rows
SpecWorklist == InitWorklist /\ [][NextWorklist]_vars

InitPersist ==
  /\ Booted(1)
  /\ RlInit
  /\ BgInit
  /\ DbInit
  /\ HdInit
  /\ QInit
  /\ WInit
  /\ PInit
  /\ GInit
  /\ MInit
  /\ KInit
  /\ FInit
  /\ SInit

NextPersist ==
  \/ \E r \in Routines : PFetched(r) /\ UNCHANGED exceptP
  \/ \E r \in Routines : PExec(r) /\ UNCHANGED exceptP
  \/ \E r \in Routines : PRangeEnd(r) /\ UNCHANGED exceptP
  \/ \E r \in Routines : PNextRow(r) /\ UNCHANGED exceptP

\* the two routines that store a fetched batch tweet by tweet
SpecPersist == InitPersist /\ [][NextPersist]_vars

InitGate ==
  /\ Booted(2)
  /\ RlInit
  /\ BgInit
  /\ DbInit
  /\ HdInit
  /\ QInit
  /\ WInit
  /\ PInit
  /\ GInit
  /\ MInit
  /\ KInit
  /\ FInit
  /\ SInit

NextGate ==
  \/ \E p \in GateCallers, a \in Limiters, t \in FetchTools, arg \in Arguments :
        GReject(p, a, t, arg) /\ UNCHANGED exceptRlG
  \/ \E p \in GateCallers, a \in Limiters, t \in FetchTools, arg \in Arguments :
        GWait(p, a, t, arg) /\ UNCHANGED exceptRlG
  \/ \E p \in GateCallers : Select(p) /\ UNCHANGED exceptRl
  \/ \E p \in GateCallers : MapAccess(p) /\ UNCHANGED exceptRl
  \/ \E p \in GateCallers : CheckLimit(p) /\ UNCHANGED exceptRl
  \/ \E p \in GateCallers : QuotaWait(p) /\ UNCHANGED exceptRl
  \/ \E p \in GateCallers : GlobalLock(p) /\ UNCHANGED exceptRl
  \/ \E p \in GateCallers : GlobalRecord(p) /\ UNCHANGED exceptRl
  \/ \E p \in GateCallers, scrape \in {"nil", "err"} :
        GTake(p, scrape) /\ UNCHANGED exceptRlG
  \/ \E p \in GateCallers : Cancel(p) /\ UNCHANGED exceptRl
  \/ Tick /\ UNCHANGED exceptRl

\* the fetch handlers of the agents of a pool, each behind its agent's limiter
SpecGate == InitGate /\ [][NextGate]_vars

InitShutdown ==
  /\ Booted(1)
  /\ RlInit
  /\ BgInit
  /\ DbInit
  /\ HdInit
  /\ QInit
  /\ WInit
  /\ PInit
  /\ GInit
  /\ MInit
  /\ KInit
  /\ FInit
  /\ SInit

\* the server accepts a request until Shutdown is called; the goroutines of the
\* requests in progress run until the process exits
NextShutdown ==
  \/ \E h \in Requests, items \in ItemLists :
        mpc = "serving" /\ RequestBegin(h, items) /\ UNCHANGED mpc
          /\ UNCHANGED exceptBgM
  \/ \E h \in Requests :
        mpc # "exited" /\ RequestSend(h) /\ UNCHANGED mpc /\ UNCHANGED exceptBgM
  \/ \E h \in Requests :
        mpc # "exited" /\ RequestDone(h) /\ UNCHANGED mpc /\ UNCHANGED exceptBgM
  \/ mpc # "exited" /\ PipeReceive /\ UNCHANGED mpc /\ UNCHANGED exceptBgM
  \/ mpc # "exited" /\ PipeProcessed /\ UNCHANGED mpc /\ UNCHANGED exceptBgM
  \/ MainSignal /\ UNCHANGED exceptBgM
  \/ MainShutdownReturns /\ UNCHANGED exceptBgM
  \/ MainClose /\ UNCHANGED exceptBgM
  \/ MainReturn /\ UNCHANGED exceptBgM

\* the requests that fill the smart users channel, and main closing it
SpecShutdown == InitShutdown /\ [][NextShutdown]_vars

InitLocks ==
  /\ Booted(1)
  /\ RlInit
  /\ BgInit
  /\ DbInit
  /\ HdInit
  /\ QInit
  /\ WInit
  /\ PInit
  /\ GInit
  /\ MInit
  /\ KInit
  /\ FInit
  /\ SInit

NextLocks ==
  \/ \E p \in LockCallers, e \in Endpoints : KCall(p, e) /\ UNCHANGED exceptK
  \/ \E p \in LockCallers : KSelect(p) /\ UNCHANGED exceptK
  \/ \E p \in LockCallers : KLockMap(p) /\ UNCHANGED exceptK
  \/ \E p \in LockCallers : KLookup(p) /\ UNCHANGED exceptK
  \/ \E p \in LockCallers : KUnlockMap(p) /\ UNCHANGED exceptK
  \/ \E p \in LockCallers : KLockLimit(p) /\ UNCHANGED exceptK
  \/ \E p \in LockCallers : KCheck(p) /\ UNCHANGED exceptK
  \/ \E p \in LockCallers : KUnlockLimit(p) /\ UNCHANGED exceptK
  \/ \E p \in LockCallers : KQuotaWake(p) /\ UNCHANGED exceptK
  \/ \E p \in LockCallers : KLockGlobal(p) /\ UNCHANGED exceptK
  \/ \E p \in LockCallers : KGlobalDone(p) /\ UNCHANGED exceptK
  \/ \E e \in Endpoints : KWindowElapses(e) /\ UNCHANGED exceptK

\* three goroutines in waitForEndpoint of one limiter, on two endpoints
SpecLocks == InitLocks /\ [][NextLocks]_vars

InitFrame ==
  /\ Booted(1)
  /\ RlInit
  /\ BgInit
  /\ DbInit
  /\ HdInit
  /\ QInit
  /\ WInit
  /\ PInit
  /\ GInit
  /\ MInit
  /\ KInit
  /\ FInit
  /\ SInit

NextFrame ==
  \/ \E p \in Callers : FBegin(p, "acc1", "get_profile") /\ UNCHANGED exceptRlF
  \/ \E p \in Callers : Select(p) /\ UNCHANGED exceptRl
  \/ \E p \in Callers : FMapAccess(p) /\ UNCHANGED exceptRlF
  \/ \E p \in Callers : FCheckLimit(p) /\ UNCHANGED exceptRlF
  \/ \E p \in Callers : QuotaWait(p) /\ UNCHANGED exceptRl
  \/ \E p \in Callers : GlobalLock(p) /\ UNCHANGED exceptRl
  \/ \E p \in Callers : FGlobalRecord(p) /\ UNCHANGED exceptRlF
  \/ \E p \in Callers : FReturn(p) /\ UNCHANGED exceptRlF
  \/ \E p \in Callers : Cancel(p) /\ UNCHANGED exceptRl
  \/ Tick /\ UNCHANGED exceptRl

\* one agent's rate limiter, with the writes of each call recorded
SpecFrame == InitFrame /\ [][NextFrame]_vars

InitDiscover ==
  /\ Booted(1)
  /\ RlInit
  /\ BgInit
  /\ DbInit
  /\ HdInit
  /\ QInit
  /\ WInit
  /\ PInit
  /\ GInit
  /\ MInit
  /\ KInit
  /\ FInit
  /\ SInit

NextDiscover ==
  \/ \E h \in Requests, items \in ItemLists :
        DInsertFailed(h, items) /\ UNCHANGED exceptBgS
  \/ \E h \in Requests, items \in ItemLists :
        DInserted(h, items) /\ UNCHANGED exceptBgS
  \/ \E h \in Requests : RequestSend(h) /\ UNCHANGED exceptBg
  \/ \E h \in Requests : DDone(h) /\ UNCHANGED exceptBgS
  \/ PipeReceive /\ UNCHANGED exceptBg
  \/ DProcessed /\ UNCHANGED exceptBgS

\* HandleSaveSmartFollowers requests, smart_users and the channel, and the
\* goroutine that takes the usernames out of the channel
SpecDiscover == InitDiscover /\ [][NextDiscover]_vars

InitFeed ==
  /\ Booted(1)
  /\ RlInit
  /\ BgInit
  /\ DbInit
  /\ HdInit
  /\ QInit
  /\ NewInit

\* the server in operation: the context is not cancelled and the channel is
\* not closed
NextFeed ==
  \/ \E h \in Requests, items \in ItemLists :
        RequestBegin(h, items) /\ UNCHANGED exceptBg
  \/ \E h \in Requests : RequestSend(h) /\ UNCHANGED exceptBg
  \/ \E h \in Requests : RequestDone(h) /\ UNCHANGED exceptBg
  \/ TickerFire /\ UNCHANGED exceptBg
  \/ PipeReceive /\ UNCHANGED exceptBg
  \/ PipeProcessed /\ UNCHANGED exceptBg
  \/ PipeSweep /\ UNCHANGED exceptBg
  \/ PipeRow /\ UNCHANGED exceptBg
  \/ PipeRowProcessed /\ UNCHANGED exceptBg
  \/ PipeRowSlept /\ UNCHANGED exceptBg

SpecFeed == InitFeed /\ [][NextFeed]_vars

\* the goroutine runs when it can (a call of processSmartUserTweets returns, a
\* sleep ends), and the select, which picks among its ready cases at random,
\* takes the receive sooner or later when it is ready again and again
FairFeed ==
  /\ SpecFeed
  /\ WF_vars(PipeStep /\ UNCHANGED exceptBg)
  /\ SF_vars(PipeReceive /\ UNCHANGED exceptBg)

InitStore ==
  /\ Booted(1)
  /\ RlInit
  /\ BgInit
  /\ DbInit
  /\ HdInit
  /\ QInit
  /\ NewInit

NextStore ==
  \/ \E new \in FetchedRows : TweetsExec(new) /\ UNCHANGED exceptDb
  \/ \E new \in FetchedRows : SmartTweetsExec(new) /\ UNCHANGED exceptDb

\* the statements the loops execute on the two tweet tables, in any order
SpecStore == InitStore /\ [][NextStore]_vars

InitTools ==
  /\ Booted(1)
  /\ RlInit
  /\ BgInit
  /\ DbInit
  /\ HdInit
  /\ QInit
  /\ NewInit

NextTools ==
  \/ \E b \in BOOLEAN : SetLoggedIn(b) /\ UNCHANGED exceptHd
  \/ \E tool \in LoginTools, arg \in Arguments, wait, scrape \in {"nil", "err"} :
        HandleLoginTool(tool, arg, wait, scrape) /\ UNCHANGED exceptHd

\* the handlers of the login-requiring tools called on one agent
SpecTools == InitTools /\ [][NextTools]_vars

InitQuota ==
  /\ Booted(1)
  /\ RlInit
  /\ BgInit
  /\ DbInit
  /\ HdInit
  /\ QInit
  /\ NewInit

NextQuota ==
  \/ \E p \in Callers : QCall(p) /\ UNCHANGED exceptQ
  \/ \E p \in Callers : QLockMap(p) /\ UNCHANGED exceptQ
  \/ \E p \in Callers : QLookup(p) /\ UNCHANGED exceptQ
  \/ \E p \in Callers : QCreate(p) /\ UNCHANGED exceptQ
  \/ \E p \in Callers : QUnlockMap(p) /\ UNCHANGED exceptQ
  \/ \E p \in Callers : QLockLimit(p) /\ UNCHANGED exceptQ
  \/ \E p \in Callers : QRead(p) /\ UNCHANGED exceptQ
  \/ \E p \in Callers : QWrite(p) /\ UNCHANGED exceptQ
  \/ \E p \in Callers : QUnlockLimit(p) /\ UNCHANGED exceptQ
  \/ \E k \in DOMAIN qobjs : QWindowElapses(k) /\ UNCHANGED exceptQ

\* goroutines inside checkEndpointLimit of one limiter, for one endpoint name
SpecQuota == InitQuota /\ [][NextQuota]_vars

(* ------------------------------------------------------------ properties *)
PoolSize == Len(agents)
Selected(k) == sel[k] # -1
InFlight(p) == pc[p] \notin {"idle", "done"}
Succeeded(p) == pc[p] = "done" /\ result[p] = "nil"

\* C1: from a fresh manager with a pool of size P the k-th getNextAgent call
\* returns pool[k mod P]; the selection has period P, any P consecutive calls
\* select P different members, and for P = 3 the first seven calls select
\* the indices 1,2,0,1,2,0,1.
C1_RoundRobin ==
  /\ \A k \in 1..MaxNext : Selected(k) => sel[k] = k % PoolSize
  /\ \A c \in NextCallers :
        npc[c] = "ret" => nret[c] = agents[(ncall[c] % PoolSize) + 1].username
  /\ \A k \in 1..MaxNext :
        (k + PoolSize <= MaxNext /\ Selected(k) /\ Selected(k + PoolSize))
          => sel[k + PoolSize] = sel[k]
  /\ \A j, k \in 1..MaxNext :
        (j < k /\ k < j + PoolSize /\ Selected(j) /\ Selected(k))
          => sel[j] # sel[k]
  /\ (PoolSize = 3 /\ \A k \in 1..7 : Selected(k))
        => [k \in 1..7 |-> sel[k]] = <<1, 2, 0, 1, 2, 0, 1>>

\* C1 witness: a pool of three agents has served seven calls
C1_Witness == PoolSize = 3 /\ \A k \in 1..7 : Selected(k)

\* C8: under any interleaving of getNextAgent callers the values handed out
\* by the atomic increment are pairwise distinct, strictly increasing in
\* increment order and consecutive (the n-th increment hands out n), so that
\* two calls in flight never hold the same value.
C8_DistinctCursor ==
  /\ Len(handed) = nAdds
  /\ \A i \in 1..Len(handed) : handed[i] = Uint32(i)
  /\ \A i, j \in 1..Len(handed) : i < j => Uint32Less(handed[i], handed[j])
  /\ \A c, d \in NextCallers :
        (c # d /\ npc[c] \in {"added", "ret"} /\ npc[d] \in {"added", "ret"})
          => nlocal[c] # nlocal[d]

\* C8 witness: two calls are in flight at once, both past their increment
C8_Witness == \A c \in NextCallers : npc[c] = "added"

\* C9: when accounts.json yields zero accounts NewAgentManager fails with
\* ErrNoAccounts and returns no manager; every manager returned has at least
\* one agent, and getNextAgent never divides by zero.
C9_NoIdentities ==
  /\ (bpc # "load" /\ bootErr.kind # "load" /\ Len(accounts) = 0)
        => (bpc = "failed" /\ bootErr = ErrNoAccounts /\ ~mgr)
  /\ mgr => Len(agents) >= 1
  /\ \A c \in NextCallers : npc[c] # "panic"

\* C9 witness: bootstrap has failed on an empty account list
C9_Witness == bpc = "failed" /\ bootErr = ErrNoAccounts /\ Len(accounts) = 0

\* C10: when the Login of one account returns an error, NewAgentManager fails
\* with an error naming that account and returns no manager; a manager that
\* is returned holds one agent per configured account, never fewer.
C10_NoPartialPool ==
  /\ loginFailed # ""
        => /\ bpc = "failed"
           /\ bootErr = [kind |-> "login", user |-> loginFailed]
           /\ ~mgr
           /\ agents = << >>
  /\ mgr => Len(agents) = Len(accounts)

\* C10 witness: the login of a later account failed after an earlier one
\* had been admitted
C10_Witness == loginFailed # "" /\ Len(built) >= 1 /\ bpc = "failed"

\* C2: any two consecutive successful waitForEndpoint completions in the
\* process, through any agents and for any endpoints, are at least the
\* minimum spacing apart.
C2_GlobalPacing ==
  [][\A p \in Callers :
       (pc[p] = "sleepGlobal" /\ pc'[p] = "done") => sinceDone >= MinSpacing]_vars

\* C3: call-count equals the number of acquires that succeeded since the
\* current window-start (the resetting attempt included) and never exceeds
\* max-calls, so no window admits more than max-calls acquires.
C3_CallCount ==
  \A l \in Limiters, e \in Endpoints :
    endpointCalls[l][e].exists =>
      /\ endpointCalls[l][e].calls = admitted[l][e]
      /\ endpointCalls[l][e].calls <= endpointCalls[l][e].maxCalls
      /\ admitted[l][e] <= endpointCalls[l][e].maxCalls

\* C4: within one window the first max-calls acquires pass the quota check
\* at once; an acquire arriving after max-calls were admitted in the window
\* does not pass unless its own check resets the window, and when it is
\* refused it waits at least the remaining window time.
C4_QuotaBlocks ==
  [][\A p \in Callers :
       (pc[p] = "checkLimit" /\ pc'[p] # "checkLimit") =>
         LET old == endpointCalls[lim[p]][ep[p]]
             had == admitted[lim[p]][ep[p]]
             expired == old.windowAge > old.windowLength
         IN /\ (had < old.maxCalls /\ ~expired) => pc'[p] = "global"
            /\ (had >= old.maxCalls /\ pc'[p] = "global") => expired
            /\ pc'[p] = "sleepQuota"
                 => timer'[p] >= old.windowLength - old.windowAge]_vars

\* C5: a call whose context is cancelled while it sleeps for the quota
\* window can return at once, without waiting for the timer, returns
\* Cancelled and never returns success.
C5_CancelInQuotaSleep ==
  \A p \in Callers :
    /\ firedAt[p] = "sleepQuota"
          => /\ pc[p] \in {"sleepQuota", "select", "done"}
             /\ pc[p] = "done" => result[p] = "Cancelled"
    /\ (pc[p] = "sleepQuota" /\ ctxDone[p]) => ENABLED QuotaWait(p)

\* C5 witness: cancelled during the quota sleep, the call has returned
\* Cancelled while its timer still had time to run
C5_Witness ==
  \E p \in Callers :
    /\ firedAt[p] = "sleepQuota"
    /\ pc[p] = "done"
    /\ result[p] = "Cancelled"
    /\ timer[p] > 0

\* C6: a call whose context is cancelled at a suspension point (the quota
\* sleep, the sleep for the global spacing, the wait for the limiter's mutex)
\* never completes successfully.
C6_CancelEverywhere ==
  \A p \in Callers :
    firedAt[p] \in {"sleepQuota", "sleepGlobal", "blockedOnMu"} => ~Succeeded(p)

C11_AllAuthenticated ==
  mgr => /\ Len(agents) = Len(accounts)
         /\ \A i \in 1..Len(agents) : agents[i].loggedIn

\* C12: every account whose Login returned nil in the current bootstrap has
\* its cookies file written before it is admitted, so a returned manager
\* holds no freshly logged-in agent without a cookies file; and an account
\* whose restored session is logged in is never logged in again by that
\* bootstrap.
C12_LoginPersisted ==
  /\ \A i \in 1..Len(built) :
        built[i].username \in fresh[boots] => built[i].username \in cookieFiles
  /\ mgr => \A i \in 1..Len(agents) :
        agents[i].username \in fresh[boots] => agents[i].username \in cookieFiles
  /\ restored \cap loginCalls = {}

\* C12 witness: the second process start has returned a manager without any
\* login, having restored a session saved by a login of the first start
C12_Witness ==
  /\ boots = 2
  /\ mgr
  /\ loginCalls = {}
  /\ \E u \in fresh[1] : u \in restored /\ u \in cookieFiles

ValidCall == acc.index >= 0 /\ acc.index < Len(agents)

\* C13: GetAgent and SetCookies never panic; for an index below 0 or at or
\* above the pool size they return ErrInvalidAgentIndex and no agent and leave
\* every agent as it was, and for an index inside the pool they succeed on the
\* agent stored at that index and on no other.
C13_IndexChecked ==
  /\ acc.op # "panic"
  /\ (acc.op \in {"GetAgent", "SetCookies"} /\ ~ValidCall)
        => /\ acc.err = ErrInvalidAgentIndex
           /\ acc.agent = ""
           /\ nAcc = 1 => agents = built
  /\ (acc.op = "GetAgent" /\ ValidCall)
        => /\ acc.err = "nil"
           /\ acc.agent = agents[acc.index + 1].username
           /\ nAcc = 1 => agents = built
  /\ (acc.op = "SetCookies" /\ ValidCall)
        => /\ acc.err = "nil"
           /\ agents[acc.index + 1].cookies = "set"
           /\ agents[acc.index + 1].username = built[acc.index + 1].username
           /\ nAcc = 1 => \A j \in 1..Len(agents) :
                            j # acc.index + 1 => agents[j] = built[j]

\* C13 witness: SetCookies(1, ...) has succeeded on a pool of three agents
C13_Witness ==
  /\ Len(agents) = 3
  /\ acc.op = "SetCookies"
  /\ acc.index = 1
  /\ acc.err = "nil"
  /\ agents[2].cookies = "set"
  /\ agents[1].cookies = "file"

\* C14: GetAgentCount returns the number of configured accounts, and whatever
\* getNextAgent, GetAgent, SetCookies and request operations have run, the
\* pool holds exactly the configured accounts in their configured order.
C14_PoolFixed ==
  /\ mgr => /\ Len(agents) = Len(accounts)
            /\ \A i \in 1..Len(agents) : agents[i].username = accounts[i]
  /\ acc.op = "GetAgentCount"
        => /\ acc.count = Len(accounts)
           /\ acc.count = Len(agents)

\* C14 witness: GetAgentCount is called after getNextAgent calls and a
\* request operation have run on a pool of three agents
C14_Witness ==
  /\ acc.op = "GetAgentCount"
  /\ acc.count = 3
  /\ nAdds >= 3
  /\ \E c \in NextCallers : opres[c].out # ""

\* C15: every request-path operation returns, with its result or its error,
\* the username of the agent that its own getNextAgent call selected, on
\* success and on every error branch, whatever other callers did meanwhile.
C15_OwnLabel ==
  \A c \in NextCallers :
    npc[c] = "returned" =>
      /\ \E o \in Operations : opres[c].out \in Outcomes(o)
      /\ Selected(ncall[c])
      /\ opres[c].label = agents[sel[ncall[c]] + 1].username

\* C15 witness: an operation returns an error after another caller has moved
\* the cursor on to a different agent
C15_Witness ==
  \E c \in NextCallers :
    /\ npc[c] = "returned"
    /\ opres[c].out = "IsError"
    /\ ncall[c] < nAdds
    /\ Len(agents) >= 2
    /\ opres[c].label # agents[SelectIndex(index, Len(agents)) + 1].username

Sending(h) == hpc[h] = "sending" /\ hitems[h] # << >>
InProcess == IF ppc = "proc" THEN <<pcur>> ELSE << >>

\* C16: a request that has a username to send is never blocked by the
\* channel; when the channel holds QueueCap usernames the send leaves the
\* channel as it is, logs the username as not sent, and the request goes on
\* with its next username without sending the dropped one again; below
\* capacity the username is appended to the channel.
C16_NonBlockingEnqueue ==
  [][\A h \in Requests :
       (Sending(h) /\ ~closed) =>
         /\ ENABLED RequestSend(h)
         /\ hitems'[h] # hitems[h] =>
              /\ hitems'[h] = Tail(hitems[h])
              /\ hpc'[h] = "sending"
              /\ IF Len(newUsers) >= QueueCap
                   THEN /\ newUsers' = newUsers
                        /\ accepted' = accepted
                        /\ warned' = Append(warned, Head(hitems[h]))
                   ELSE /\ newUsers' = Append(newUsers, Head(hitems[h]))
                        /\ accepted' = Append(accepted, Head(hitems[h]))
                        /\ warned' = warned]_vars

\* C16 witness: with the channel full, a request has dropped one username and
\* then its next one, and still has the channel full
C16_Witness ==
  /\ Len(warned) >= 2
  /\ Len(newUsers) = QueueCap
  /\ ~closed

\* C17: the channel never holds more than QueueCap usernames, and the
\* usernames processed from it, the one in process and those still waiting
\* are together exactly the accepted usernames in the order of their
\* acceptance, whatever requests, periodic passes and the consumer do.
C17_BoundedFifo ==
  /\ Len(newUsers) <= QueueCap
  /\ accepted = processed \o InProcess \o newUsers

\* C17 witness: three usernames were processed, in an order that tells them
\* apart, while another one waits
C17_Witness ==
  /\ Len(processed) >= 3
  /\ processed[1] # processed[2]
  /\ processed[2] # processed[3]
  /\ newUsers # << >>

\* C18: once the context is cancelled, the goroutine starts processing no
\* further username, neither one received from the channel nor one of a
\* periodic pass.
C18_NoStartAfterCancel ==
  [][cancelled =>
       ~(ppc \notin {"proc", "rowProc"} /\ ppc' \in {"proc", "rowProc"})]_vars

\* C19: without cancellation the goroutine stops only when the channel is
\* closed and empty and every accepted username has been processed; and once
\* the channel is closed the goroutine does stop.
C19_DrainOnClose ==
  /\ [](( ppc = "stopped" /\ ~cancelled ) =>
          /\ closed
          /\ newUsers = << >>
          /\ processed = accepted)
  /\ (closed ~> ppc = "stopped")

\* C19 witness: the channel was closed with two usernames waiting, and the
\* goroutine has stopped, without cancellation, after processing them
C19_Witness ==
  /\ ppc = "stopped"
  /\ ~cancelled
  /\ closedWith >= 2
  /\ processed = accepted

\* C20: once the context of the background tasks is cancelled, none of the
\* three goroutines begins a further facade call: the profile loop and the
\* tweets loop leave their pass, and the smart tweets goroutine starts no row.
C20_LoopsStopOnCancel ==
  [][cancelled =>
       /\ \A l \in Loops : ~(lpc[l] # "fetch" /\ lpc'[l] = "fetch")
       /\ ~(ppc # "rowProc" /\ ppc' = "rowProc")]_vars

\* C21: a row whose fetch or persist failed is logged and skipped and the pass
\* goes on: when the work on a row ends, with or without an error, the loop
\* turns to the rows after it (none of them is dropped) and stays in its pass;
\* the same holds for the rows of the periodic pass of the priority pipeline
\* as long as its context is not cancelled
C21_RowErrorsSkipped ==
  [][/\ \A l \in Loops :
          /\ lpc[l] = "fetch" =>
               \/ lpc'[l] = "fetch" /\ lrows'[l] = lrows[l]
               \/ lpc'[l] = "rows" /\ lrows'[l] = lrows[l] - 1
               \/ lpc'[l] = "rowSleep" /\ lrows'[l] = lrows[l]
          /\ lpc[l] = "rowSleep" =>
               \/ lpc'[l] = "rowSleep" /\ lrows'[l] = lrows[l]
               \/ lpc'[l] = "rows" /\ lrows'[l] = lrows[l] - 1
          /\ (lpc[l] = "rows" /\ lrows[l] > 0) =>
               \/ lpc'[l] = "rows" /\ lrows'[l] \in {lrows[l], lrows[l] - 1}
               \/ lpc'[l] = "fetch" /\ lrows'[l] = lrows[l]
     /\ ppc = "rowProc" => (ppc' \in {"rowProc", "rowSleep"} /\ prows' = prows)
     /\ ppc = "rowSleep" =>
          \/ ppc' = "rowSleep" /\ prows' = prows
          \/ ppc' = "rows" /\ prows' = prows - 1
     /\ (ppc = "rows" /\ prows > 0 /\ ~cancelled) =>
          \/ ppc' = "rows" /\ prows' \in {prows, prows - 1}
          \/ ppc' = "rowProc" /\ prows' = prows]_vars
\* each sweep loop is fetching the last row of a pass whose first row failed,
\* one by a fetch error and one by a persist error
C21_Witness ==
  /\ lpc["tweets"] = "fetch" /\ lrows["tweets"] = 1
  /\ lfailed["tweets"] = {"skipped"}
  /\ lpc["profile"] = "fetch" /\ lrows["profile"] = 1
  /\ lfailed["profile"] = {"logged"}

Immutable(r) == <<r.user_id, r.tweeter_user_id, r.username, r.text, r.time_parsed>>
Mutable(r) == <<r.likes, r.replies, r.retweets, r.views>>
RowsOf(t, id) == {r \in tables[t] : r.id = id}

\* C22: whatever statements were executed, and in whatever order, a table holds
\* exactly one row for each id an upsert completed for (and none for the other
\* ids), and the likes, replies, retweets and views of that row are those of
\* the latest completed upsert of the id
C22_LastWriteWins ==
  \A t \in Tables, id \in TweetIds :
    /\ Cardinality(RowsOf(t, id)) = IF completed[t][id] > 0 THEN 1 ELSE 0
    /\ \A r \in RowsOf(t, id) : Mutable(r) = Mutable(lastUpsert[t][id])
\* the same tweet was stored twice into tweets, then once more with new counters
C22_Witness ==
  \E r \in tables["tweets"] :
    /\ completed["tweets"][r.id] = 3
    /\ Mutable(firstInsert["tweets"][r.id]) = <<0, 0, 0, 0>>
    /\ Mutable(r) = <<1, 2, 3, 4>>

\* C23: the columns outside the DO UPDATE SET list (the worklist row's key, the
\* author, the text, the creation time) of a stored row are those of the first
\* insert of its id, whatever later upserts carried
C23_ImmutableKept ==
  \A t \in Tables : \A r \in tables[t] :
    Immutable(r) = Immutable(firstInsert[t][r.id])
\* a later upsert of a smart_tweets row carried another text, author and key
C23_Witness ==
  \E r \in tables["smart_tweets"] :
    LET last == lastUpsert["smart_tweets"][r.id] IN
      /\ completed["smart_tweets"][r.id] >= 2
      /\ last.text # r.text
      /\ last.user_id # r.user_id
      /\ last.username # r.username
      /\ Mutable(last) # Mutable(firstInsert["smart_tweets"][r.id])

Called == toolCall.tool \in LoginTools

C25_TweetIdRequired ==
  (toolCall.tool \in {"like_tweet", "unlike_tweet", "retweet"}
     /\ ArgMissing(toolCall.arg)) =>
    (toolCall.isError /\ toolCall.text = "tweet_id is required")

\* C26: an endpoint name has one quota state in the process: the limiters of
\* two agents of the pool never both hold an endpointLimit for the same endpoint
C26_OneQuotaPerEndpoint ==
  \A e \in Endpoints :
    Cardinality({l \in Limiters : endpointCalls[l][e].exists}) <= 1

\* C27: whatever the interleaving, the endpoint name gets one endpointLimit and
\* every goroutine works on it, and the count of a limit is the number of calls
\* it allowed by counting since its window began (no increment is lost) and
\* never passes maxCalls (no slot is given twice)
C27_AtomicQuota ==
  /\ Len(qobjs) <= 1
  /\ qmap = Len(qobjs)
  /\ \A p \in Callers : qptr[p] \in {0, qmap}
  /\ \A k \in DOMAIN qobjs :
       /\ qobjs[k].calls = qgranted[k]
       /\ qgranted[k] <= DefaultMaxCalls
\* two goroutines used the name for the first time at once: one created the
\* limit and is between its read and its write, the other waits for limit.mu
C27_Witness ==
  /\ nChecks = 2 /\ Len(qobjs) = 1
  /\ qpc["g1"] = "write" /\ qread["g1"].calls = DefaultMaxCalls - 1
  /\ qpc["g2"] = "lockLimit" /\ qptr["g2"] = 1

\* C28: the agent selected by a call is the successor (mod the pool size) of
\* the agent selected by the call before it, also when the uint32 index wraps
\* from its maximum to 0 between the two
C28_WrapSuccessor ==
  \A k \in 1..(MaxNext - 1) :
    (Selected(k) /\ Selected(k + 1)) => sel[k + 1] = (sel[k] + 1) % PoolSize

Restorations == SelectSeq(bootLog, LAMBDA ev : ev.step = "restore")

\* C29: in a bootstrap the accounts are taken one by one in the order of
\* accounts.json, each once; an account's restoration comes first, Login is
\* called for it exactly when the restoration left it not logged in, directly
\* after the restoration and only once; a bootstrap that returns a manager has
\* taken every account
C29_BootSequence ==
  /\ Len(Restorations) <= Len(accounts)
  /\ \A j \in DOMAIN Restorations : Restorations[j].user = accounts[j]
  /\ bpc = "done" => Len(Restorations) = Len(accounts)
  /\ \A k \in DOMAIN bootLog :
       /\ bootLog[k].step = "login" =>
            /\ k > 1
            /\ bootLog[k - 1] =
                 [step |-> "restore", user |-> bootLog[k].user, authed |-> FALSE]
       /\ (bootLog[k].step = "restore" /\ ~bootLog[k].authed) =>
            IF k = Len(bootLog)
              THEN bpc = "restored"
              ELSE /\ bootLog[k + 1].step = "login"
                   /\ bootLog[k + 1].user = bootLog[k].user
\* a bootstrap of three accounts returned a manager: the first account was
\* restored logged in, the other two had to log in
C29_Witness ==
  /\ bpc = "done" /\ Len(accounts) = 3
  /\ [k \in DOMAIN bootLog |-> bootLog[k].step]
       = <<"restore", "restore", "login", "restore", "login">>
  /\ bootLog[1].authed /\ ~bootLog[2].authed

\* C30: the smart tweets goroutine has returned only if its context was
\* cancelled or the channel was closed, and the two sweep loops never return:
\* a failed query, an empty result, a failed fetch or a failed Exec leaves
\* every loop running
C30_StoppedOnlyByCancelOrClose ==
  /\ ppc = "stopped" => (cancelled \/ closed)
  /\ \A l \in Loops :
       lpc[l] \in {"query", "errSleep", "rows", "fetch", "rowSleep", "passSleep"}
\* the channel was closed and the goroutine returned, without a cancellation,
\* while a sweep loop that met a failed fetch sleeps until its next pass
C30_Witness ==
  /\ ppc = "stopped" /\ closed /\ ~cancelled
  /\ lpc["tweets"] = "passSleep" /\ lfailed["tweets"] = {"skipped"}
  /\ lpc["profile"] = "errSleep"

\* C31: in a pass of the profile loop the per-row sleep lies between the fetch
\* of a row and the next row of the pass, and the loop reads the worklist
\* again after a pass only through the sleep between two passes
C31_PerRowDelay ==
  [][/\ (lpc["profile"] = "fetch" /\ lrows["profile"] > 1) =>
          lpc'["profile"] \in {"fetch", "rowSleep"}
     /\ (lpc["profile"] = "rows" /\ lrows["profile"] = 0) =>
          lpc'["profile"] \in {"rows", "passSleep"}]_vars

\* C32: a row whose fetch failed stays in the worklist of the loop, unmarked,
\* and the next query of the loop returns it again; no row that was inserted
\* into users ever disappears
C32_RetryNextPass ==
  /\ [](\A l \in Loops : wfailed[l] \subseteq Worklist(l, users))
  /\ [](\A u \in inserted : users[u] # "absent")
  /\ [][\A l \in Loops :
         (wpc[l] = "query" /\ wpc'[l] = "rows") =>
           wfailed[l] \subseteq Range(wrows'[l])]_vars
\* each loop is fetching again, in a later pass, a row whose fetch had failed
C32_Witness ==
  \A l \in Loops :
    /\ wpc[l] = "fetch"
    /\ Head(wrows[l]) \in wfailed[l]

\* C33: a failed upsert of one tweet of a batch is skipped: when a routine is
\* done with a batch, db.Exec was called for every tweet of the batch, in the
\* content refresh loop and in the single-row routine of the pipeline
C33_PersistErrorPerItem ==
  \A r \in Routines :
    spc[r] = "return" => Len(bres[r]) = Len(bbatch[r])

\* C34: a handler calls the scraper only after waitForEndpoint returned nil
\* for the handler's endpoint on the limiter of the handler's own agent, and a
\* handler whose waitForEndpoint returned Cancelled returns the rate limit
\* error without calling the scraper
C34_LimiterGates ==
  \A p \in Callers :
    /\ gcall[p].scraped =>
          /\ gcall[p].waitResult = "nil"
          /\ gcall[p].waitedOn = gcall[p].agent
          /\ gcall[p].endpoint = gcall[p].tool
    /\ gcall[p].waitResult = "Cancelled" =>
          /\ ~gcall[p].scraped
          /\ gcall[p].isError
          /\ gcall[p].text = "rate limit error"
\* a handler was cancelled in the limiter of acc2, whose quota for the endpoint
\* an earlier handler call, which went on to the scraper, had used up
C34_Witness ==
  /\ gcall["g1"].waitResult = "Cancelled"
  /\ gcall["g1"].agent = "acc2"
  /\ gcall["g1"].endpoint = "get_user_tweets"
  /\ endpointCalls["acc2"]["get_user_tweets"].calls = 1

\* C35: whatever the interleaving of the requests in progress with main's
\* shutdown, no request panics on its send (a send when the channel is full or
\* closed logs the warning and the loop goes on)
C35_NoSendOnClosed ==
  \A h \in Requests : hpc[h] # "panic"

\* the goroutine holds limit.mu of some endpoint
HoldsLimit(p) == \E e \in Endpoints : klimit[e].mu = p
\* the goroutine waits for a mutex another goroutine holds
WaitsFor(p) ==
  IF kpc[p] \in {"lockMap", "lockGlobal"} THEN kmu
  ELSE IF kpc[p] = "lockLimit" THEN klimit[kep[p]].mu
  ELSE ""

\* C36: goroutines in waitForEndpoint of one limiter cannot deadlock: a
\* goroutine that holds r.mu or a limit.mu holds no other mutex and waits for
\* none, so no goroutine waits for a goroutine that itself waits; a goroutine
\* sleeping for the quota of an endpoint holds no mutex; and the only sleep
\* under a mutex is the pacing sleep of waitForGlobalLimit under r.mu
C36_NoDeadlock ==
  \A p \in LockCallers :
    /\ kmu = p => kpc[p] \in {"lookup", "unlockMap", "sleepGlobal"}
    /\ HoldsLimit(p) => kpc[p] \in {"check", "unlockLimit"}
    /\ ~(kmu = p /\ HoldsLimit(p))
    /\ WaitsFor(p) # "" => WaitsFor(WaitsFor(p)) = ""
    /\ kpc[p] = "sleepQuota" => (kmu # p /\ ~HoldsLimit(p))
\* one goroutine sleeps for the quota of get_profile, another is in the pacing
\* sleep after a call on get_user_tweets, and the third waits for r.mu
C36_Witness ==
  /\ kpc["k1"] = "sleepQuota" /\ kep["k1"] = "get_profile"
  /\ kpc["k2"] = "sleepGlobal" /\ kep["k2"] = "get_user_tweets"
  /\ kpc["k3"] = "lockMap"

\* C37: a waitForEndpoint call that returns Cancelled has written nothing: not
\* the endpoint's calls, not its windowStart, not the limiter's lastCallTime
C37_CancelledWritesNothing ==
  \A p \in Callers : result[p] = "Cancelled" => wrote[p] = {}
\* C37 (amended): a waitForEndpoint call that returns Cancelled has assigned
\* neither limit.calls nor limit.windowStart nor r.lastCallTime; the one thing
\* it may have written is the endpoint's new endpointLimit, when it was the
\* first call on the endpoint
C37_CancelledConsumesNothing ==
  \A p \in Callers : result[p] = "Cancelled" => wrote[p] \subseteq {"created"}
\* one call returned Cancelled from the select at the head of the loop, the
\* other from the wait for the quota
C37_Witness ==
  /\ result["g1"] = "Cancelled" /\ firedAt["g1"] = "running"
  /\ result["g2"] = "Cancelled" /\ firedAt["g2"] = "sleepQuota"

\* C38: every request-path operation takes one step of the rotation, whatever
\* it returns: am.index is the number of operations begun, and the call that
\* follows an operation which has returned (with nil, with an error, or with a
\* result that IsError: missing parameter, login required, rate limit error,
\* scraper error) selects the next agent of the pool
C38_OneSlotPerOperation ==
  /\ index = [hi |-> 0, lo |-> nAdds]
  /\ \A c \in NextCallers :
       (npc[c] = "returned" /\ ncall[c] < MaxNext /\ Selected(ncall[c] + 1)) =>
         sel[ncall[c] + 1] = (sel[ncall[c]] + 1) % PoolSize
\* an operation has returned a result that IsError, and the operation begun
\* after it has selected its agent, in a pool of three
C38_Witness ==
  /\ PoolSize = 3
  /\ npc["n1"] = "returned" /\ opres["n1"].out = "IsError" /\ ncall["n1"] = 3
  /\ npc["n2"] = "returned" /\ opres["n2"].out = "err" /\ ncall["n2"] = 4
  /\ sel[3] = 0 /\ sel[4] = 1

\* C39: a username is in smart_users before it is in the channel: every
\* username in the channel, every username sent into it and the username the
\* goroutine has received has a row, so no lookup of processSmartUserTweets
\* comes back without a row; a request whose INSERT failed sends nothing
C39_PersistedBeforeEnqueued ==
  /\ Range(newUsers) \subseteq smartUsers
  /\ Range(accepted) \subseteq smartUsers
  /\ pcur # "" => pcur \in smartUsers
  /\ \A l \in lookups : l.found
  /\ \A h \in Requests : dresp[h] = 500 => hpc[h] = "idle"
\* the INSERT of one request failed and it sent nothing, the other request
\* inserted three rows and sent them, and one of them was looked up
C39_Witness ==
  /\ dresp["h1"] = 500
  /\ smartUsers = {"u1", "u2", "u3"}
  /\ Len(accepted) >= 2
  /\ [username |-> "u2", found |-> TRUE] \in lookups

\* C40: while the context is not cancelled, the k-th username accepted into the
\* channel is in the end received by the goroutine and handed to
\* processSmartUserTweets, whatever ticks and other usernames arrive
C40_AcceptedIsProcessed ==
  \A k \in 1..MaxSends :
    (Len(accepted) >= k) ~> (Len(processed) + Len(InProcess) >= k)
\* the last username of a full run was accepted behind others, ticks came in
\* between, and it is with processSmartUserTweets
C40_Witness ==
  /\ ~cancelled
  /\ Len(accepted) = MaxSends
  /\ Len(processed) = MaxSends - 1
  /\ ppc = "proc"
  /\ tickerC
====
